---- MODULE Spec2Model ----
(***************************************************************************)
(* A model of timehop/jimmy's redis package: the raw connection with its   *)
(* auth retry (connection.Do), the batch executor behind Pipelined,        *)
(* PipelinedDiscarding and Transaction (sendOnlyConnection), and the       *)
(* connection pool.  The redigo driver connection and the redis server are *)
(* the environment: they are modelled by what the package's calls to them  *)
(* do (Send buffers, Flush delivers, Receive reads one reply, Do flushes   *)
(* and reads every outstanding reply).                                     *)
(***************************************************************************)
EXTENDS Integers, Sequences, FiniteSets, Bags, TLC

\* Bounds of the model.
MaxPending == 2
MaxList == 2
\* Calls on the pool in progress at one time (each in its own goroutine), and
\* connections the generator may open.
NumCallers == 2
MaxDials == 3
\* Goroutines that use hostsNotUsingAuth at one time.
NumThreads == 2
\* Fields of one HMGet, and the length of a slice given to stringMap or
\* spliceMap.
MaxFields == 2
MaxSlice == 3
\* Commands of the other client while one transaction is under way.
MaxOther == 2
MaxCalls == 2

Fields == {"bar"}
Values == {"baz"}
Passwords == {"", "testpass", "foopass"}

VARIABLES
    c,          \* the driver connection: out, inq, pending, err
    srv,        \* the server as this connection sees it
    password,   \* connection.password
    ex,         \* the batch executor of the call in progress
    last,       \* the last completed method call and what it returned
    obs,        \* what the server received during the current call, and answered
    hostsNotUsingAuth,  \* hostsNotUsingAuth.hosts: the hosts it maps to true
    settled,    \* the hosts whose last completed Add or Remove was an Add
    mu,         \* hostsNotUsingAuth.mu: the writer and the readers that hold it
    threads,    \* each goroutine that uses hostsNotUsingAuth: where it is
    url,        \* the URL the generator of a pool was given, shared by its calls
    wire,       \* the commands Exec wrote that have not reached the server yet
    applied,    \* the commands that took effect at the server, and whose they were
    p,          \* pool.p, the driver's pool: its limits, active, idle, closed
    conns,      \* every connection the generator may open, and its state
    dialing,    \* the calls that wait for the generator to return, a bag
    plast       \* the last completed call on the pool and what it returned

soloVars == <<c, srv, password, ex, last, obs>>
threadVars == <<mu, threads, url>>
txVars == <<wire, applied>>
connVars == <<soloVars, hostsNotUsingAuth, settled, threadVars, txVars>>
poolVars == <<p, conns, dialing, plast>>

----------------------------------------------------------------------------
\* Replies and errors.  A Go nil error is the empty string.

RNil == [t |-> "nil"]
RInt(n) == [t |-> "int", n |-> n]
RStatus(s) == [t |-> "status", s |-> s]
RBulk(b) == [t |-> "bulk", b |-> b]
RErr(e) == [t |-> "err", e |-> e]
RArray(a) == [t |-> "array", a |-> a]

NoErr == ""
ErrIO == "io"
ErrNil == "redigo: nil returned"
redigoErrNoAuth == "NOAUTH Authentication required."
redigoErrSentAuth == "ERR Client sent AUTH, but no password is set"
ErrInvalidPassword == "ERR invalid password"
ErrWrongType == "WRONGTYPE"
ErrArity == "ERR wrong number of arguments"
ErrExecAbort == "EXECABORT"
ErrNoMulti == "ERR EXEC without MULTI"
ErrNested == "ERR MULTI calls can not be nested"
ErrNoFields == "redis: at least once field is required"
ErrNoPairs == "redis: at least one key/value pair is required"
ErrNotOK == "result is not OK"
ErrUnexpected == "redigo: unexpected type"
ErrMapNil == "redis: cannot convert response slice to map as it is nil"
ErrMapOdd == "redis: cannot convert response slice to map as it has an odd number of values"
ErrSpliceNil == "redis: cannot splice keys supplied to HMGET with values returned because one or both slices are nil"
ErrSpliceLen == "redis: cannot splice keys supplied to HMGET with values returned because their lengths are different"

----------------------------------------------------------------------------
\* Commands.

CmdLPush == [op |-> "LPUSH"]
CmdDel == [op |-> "DEL"]
CmdMulti == [op |-> "MULTI"]
CmdExec == [op |-> "EXEC"]
CmdAuth(pw) == [op |-> "AUTH", pw |-> pw]
CmdHMSet(kv) == [op |-> "HMSET", kv |-> kv]
CmdHMGet(f) == [op |-> "HMGET", f |-> f]
CmdHGet(f) == [op |-> "HGET", f |-> <<f>>]
CmdGet == [op |-> "GET"]
CmdZAdd(args) == [op |-> "ZADD", args |-> args]
CmdZRem(members) == [op |-> "ZREM", members |-> members]
CmdZScore(member) == [op |-> "ZSCORE", member |-> member]

EmptyMap == [x \in {} |-> ""]
Maps == UNION {[S -> Values] : S \in SUBSET Fields}
FieldLists == {<<>>} \cup {<<f>> : f \in Fields}

\* mapToSlice: the keys and values of m, alternating, in some order of the keys.
RECURSIVE Orderings(_)
Orderings(S) ==
    IF S = {} THEN {<<>>}
    ELSE UNION {{<<x>> \o o : o \in Orderings(S \ {x})} : x \in S}

RECURSIVE Flatten(_, _)
Flatten(m, ks) ==
    IF ks = <<>> THEN <<>>
    ELSE <<Head(ks), m[Head(ks)]>> \o Flatten(m, Tail(ks))

mapToSlice(m) == {Flatten(m, ks) : ks \in Orderings(DOMAIN m)}

----------------------------------------------------------------------------
\* The server.

DbNone == [kind |-> "none"]
DbList(n) == [kind |-> "list", len |-> n]
DbHash(h) == [kind |-> "hash", h |-> h]
DbZSet(z) == [kind |-> "zset", z |-> z]

MapPut(h, k, v) == [x \in (DOMAIN h) \cup {k} |-> IF x = k THEN v ELSE h[x]]

RECURSIVE ApplyPairs(_, _)
ApplyPairs(h, kv) ==
    IF Len(kv) < 2 THEN h
    ELSE ApplyPairs(MapPut(h, kv[1], kv[2]), SubSeq(kv, 3, Len(kv)))

ArityOK(cmd) ==
    CASE cmd.op = "HMSET" -> Len(cmd.kv) >= 2 /\ Len(cmd.kv) % 2 = 0
      [] cmd.op = "HMGET" -> Len(cmd.f) >= 1
      [] cmd.op = "ZADD" -> Len(cmd.args) >= 2 /\ Len(cmd.args) % 2 = 0
      [] cmd.op = "ZREM" -> Len(cmd.members) >= 1
      [] OTHER -> TRUE

\* One data command against the key the model uses.
ServerExec(db, cmd) ==
    IF ~ArityOK(cmd) THEN [db |-> db, reply |-> RErr(ErrArity)]
    ELSE
    CASE cmd.op = "LPUSH" ->
            IF db.kind \in {"hash", "zset"} THEN [db |-> db, reply |-> RErr(ErrWrongType)]
            ELSE LET n == (IF db.kind = "list" THEN db.len ELSE 0) + 1
                 IN  [db |-> DbList(n), reply |-> RInt(n)]
      [] cmd.op = "DEL" ->
            [db |-> DbNone, reply |-> RInt(IF db.kind = "none" THEN 0 ELSE 1)]
      [] cmd.op = "HMSET" ->
            IF db.kind \in {"list", "zset"} THEN [db |-> db, reply |-> RErr(ErrWrongType)]
            ELSE LET h == IF db.kind = "hash" THEN db.h ELSE EmptyMap
                 IN  [db |-> DbHash(ApplyPairs(h, cmd.kv)), reply |-> RStatus("OK")]
      [] cmd.op = "HGET" ->
            IF db.kind \in {"list", "zset"} THEN [db |-> db, reply |-> RErr(ErrWrongType)]
            ELSE [db |-> db,
                  reply |-> IF db.kind = "hash" /\ cmd.f[1] \in DOMAIN db.h
                            THEN RBulk(db.h[cmd.f[1]]) ELSE RNil]
      [] cmd.op = "GET" ->
            IF db.kind = "none" THEN [db |-> db, reply |-> RNil]
            ELSE [db |-> db, reply |-> RErr(ErrWrongType)]
      [] cmd.op = "ZADD" ->
            IF db.kind \in {"list", "hash"} THEN [db |-> db, reply |-> RErr(ErrWrongType)]
            ELSE LET z == IF db.kind = "zset" THEN db.z ELSE {}
                     ms == {cmd.args[2 * i] : i \in 1..(Len(cmd.args) \div 2)}
                 IN  [db |-> DbZSet(z \cup ms), reply |-> RInt(Cardinality(ms \ z))]
      [] cmd.op = "ZREM" ->
            IF db.kind \in {"list", "hash"} THEN [db |-> db, reply |-> RErr(ErrWrongType)]
            ELSE LET z == IF db.kind = "zset" THEN db.z ELSE {}
                     ms == {cmd.members[i] : i \in 1..Len(cmd.members)}
                 IN  [db |-> IF z \ ms = {} THEN DbNone ELSE DbZSet(z \ ms),
                      reply |-> RInt(Cardinality(ms \cap z))]
      [] cmd.op = "ZSCORE" ->
            IF db.kind \in {"list", "hash"} THEN [db |-> db, reply |-> RErr(ErrWrongType)]
            ELSE [db |-> db,
                  reply |-> IF db.kind = "zset" /\ cmd.member \in db.z
                            THEN RBulk("1") ELSE RNil]
      [] cmd.op = "HMGET" ->
            IF db.kind \in {"list", "zset"} THEN [db |-> db, reply |-> RErr(ErrWrongType)]
            ELSE [db |-> db,
                  reply |-> RArray([i \in 1..Len(cmd.f) |->
                      IF db.kind = "hash" /\ cmd.f[i] \in DOMAIN db.h
                      THEN RBulk(db.h[cmd.f[i]]) ELSE RNil])]

\* The reply to a command, followed by what the remaining commands gave.
ThenDb(reply, rest) == [db |-> rest.db, replies |-> <<reply>> \o rest.replies]
ThenSrv(reply, rest) == [s |-> rest.s, replies |-> <<reply>> \o rest.replies]

RECURSIVE ExecQueue(_, _)
RECURSIVE ExecQueueAfter(_, _)
ExecQueueAfter(r, q) == ThenDb(r.reply, ExecQueue(r.db, q))

\* The queued commands of a transaction, run in order.
ExecQueue(db, q) ==
    IF q = <<>> THEN [db |-> db, replies |-> <<>>]
    ELSE ExecQueueAfter(ServerExec(db, Head(q)), Tail(q))

\* The server after a data command with result r, and after an EXEC whose
\* queue ran with result r.
Served(s, r) == [s |-> [s EXCEPT !.db = r.db], reply |-> r.reply]
Executed(s, r) ==
    [s |-> [s EXCEPT !.multi = "off", !.queue = <<>>, !.db = r.db],
     reply |-> RArray(r.replies)]

\* One command arriving at the server on this connection.
ServerStep(s, cmd) ==
    IF cmd.op = "AUTH" THEN
        IF s.requirepass = "" THEN [s |-> s, reply |-> RErr(redigoErrSentAuth)]
        ELSE IF cmd.pw = s.requirepass
             THEN [s |-> [s EXCEPT !.authed = TRUE], reply |-> RStatus("OK")]
             ELSE [s |-> [s EXCEPT !.authed = FALSE], reply |-> RErr(ErrInvalidPassword)]
    ELSE IF s.requirepass # "" /\ ~s.authed THEN [s |-> s, reply |-> RErr(redigoErrNoAuth)]
    ELSE IF cmd.op = "MULTI" THEN
        IF s.multi # "off" THEN [s |-> s, reply |-> RErr(ErrNested)]
        ELSE [s |-> [s EXCEPT !.multi = "on", !.queue = <<>>], reply |-> RStatus("OK")]
    ELSE IF cmd.op = "EXEC" THEN
        IF s.multi = "off" THEN [s |-> s, reply |-> RErr(ErrNoMulti)]
        ELSE IF s.multi = "dirty"
             THEN [s |-> [s EXCEPT !.multi = "off", !.queue = <<>>], reply |-> RErr(ErrExecAbort)]
             ELSE Executed(s, ExecQueue(s.db, s.queue))
    ELSE IF s.multi # "off" THEN
        IF ~ArityOK(cmd) THEN [s |-> [s EXCEPT !.multi = "dirty"], reply |-> RErr(ErrArity)]
        ELSE [s |-> [s EXCEPT !.queue = Append(@, cmd)], reply |-> RStatus("QUEUED")]
    ELSE Served(s, ServerExec(s.db, cmd))

\* The data commands that take effect when cmd arrives on this connection:
\* the queue at an EXEC that closes a MULTI, nothing while the server refuses
\* or queues, the command itself otherwise.
Applies(s, cmd) ==
    IF cmd.op = "AUTH" \/ (s.requirepass # "" /\ ~s.authed) \/ cmd.op = "MULTI" THEN <<>>
    ELSE IF cmd.op = "EXEC" THEN (IF s.multi = "on" THEN s.queue ELSE <<>>)
    ELSE IF s.multi # "off" THEN <<>>
    ELSE <<cmd>>

RECURSIVE ServerRun(_, _)
RECURSIVE ServerRunAfter(_, _)
ServerRunAfter(r, cmds) == ThenSrv(r.reply, ServerRun(r.s, cmds))

\* The commands of one write, handled in order.
ServerRun(s, cmds) ==
    IF cmds = <<>> THEN [s |-> s, replies |-> <<>>]
    ELSE ServerRunAfter(ServerStep(s, Head(cmds)), Tail(cmds))

----------------------------------------------------------------------------
\* The driver connection (redigo.Conn) as the package uses it.  w is the
\* world a call acts on: [c, srv, obs].

FirstErr(replies) ==
    IF \E i \in 1..Len(replies) : replies[i].t = "err"
    THEN replies[CHOOSE i \in 1..Len(replies) :
                    /\ replies[i].t = "err"
                    /\ \A j \in 1..(i - 1) : replies[j].t # "err"].e
    ELSE NoErr

Exchange(cmds, replies) == [i \in 1..Len(cmds) |-> [cmd |-> cmds[i], reply |-> replies[i]]]

\* s.c.Send: buffers the command; a write failure is fatal to the connection.
DriverSend(w, cmd, fail) ==
    IF w.c.err # NoErr THEN [w |-> w, err |-> w.c.err]
    ELSE IF fail THEN [w |-> [w EXCEPT !.c.err = ErrIO], err |-> ErrIO]
    ELSE [w |-> [w EXCEPT !.c.out = Append(@, cmd), !.c.pending = @ + 1], err |-> NoErr]

\* s.c.Flush: delivers the buffered commands; the server answers each in order.
DriverFlush(w, fail) ==
    IF w.c.err # NoErr THEN [w |-> w, err |-> w.c.err]
    ELSE IF fail THEN [w |-> [w EXCEPT !.c.err = ErrIO], err |-> ErrIO]
    ELSE LET r == ServerRun(w.srv, w.c.out)
         IN  [w |-> [c |-> [w.c EXCEPT !.out = <<>>, !.inq = @ \o r.replies],
                     srv |-> r.s,
                     obs |-> w.obs \o Exchange(w.c.out, r.replies)],
              err |-> NoErr]

\* s.c.Receive: reads the next unread reply; an error reply is returned as the
\* error.  With nothing to read the call waits until the transport gives up.
DriverReceive(w, fail) ==
    IF w.c.err # NoErr THEN [w |-> w, val |-> RNil, err |-> w.c.err]
    ELSE IF fail \/ w.c.inq = <<>>
         THEN [w |-> [w EXCEPT !.c.err = ErrIO], val |-> RNil, err |-> ErrIO]
    ELSE LET r == Head(w.c.inq)
             w2 == [w EXCEPT !.c.inq = Tail(@),
                             !.c.pending = IF @ > 0 THEN @ - 1 ELSE 0]
         IN  IF r.t = "err" THEN [w |-> w2, val |-> RNil, err |-> r.e]
             ELSE [w |-> w2, val |-> r, err |-> NoErr]

\* The rest of s.c.Do once the commands sent reached the server, which ran
\* them with result r: the replies are read, or lost when fail is "read".
DoServed(w, sent, r, fail) ==
    IF fail = "read"
    THEN [w |-> [c |-> [w.c EXCEPT !.out = <<>>, !.inq = <<>>,
                                   !.pending = 0, !.err = ErrIO],
                 srv |-> r.s, obs |-> w.obs \o Exchange(sent, r.replies)],
          val |-> RNil, err |-> ErrIO]
    ELSE [w |-> [c |-> [w.c EXCEPT !.out = <<>>, !.inq = <<>>, !.pending = 0],
                 srv |-> r.s, obs |-> w.obs \o Exchange(sent, r.replies)],
          val |-> r.replies[Len(r.replies)],
          err |-> FirstErr(w.c.inq \o r.replies)]

\* s.c.Do: sends the command, flushes, and reads every outstanding reply; it
\* returns the last reply and the first error reply among those it read.
\* fail is "ok", "write" (nothing reaches the server) or "read" (the server
\* handled the commands and the replies were lost).
DriverDo(w, cmd, fail) ==
    IF w.c.err # NoErr THEN [w |-> w, val |-> RNil, err |-> w.c.err]
    ELSE IF fail = "write"
         THEN [w |-> [w EXCEPT !.c.err = ErrIO], val |-> RNil, err |-> ErrIO]
    ELSE DoServed(w, Append(w.c.out, cmd), ServerRun(w.srv, Append(w.c.out, cmd)), fail)

Fails == {"ok", "write", "read"}

----------------------------------------------------------------------------
\* connection: Do with the auth retry, and the conversions of its typed methods.

\* connection.Do as it would be without the test of s.password.
connDoAuthAnyPassword(w, pw, cmd) ==
    UNION {
        IF r1.err = redigoErrNoAuth
        THEN UNION {
            IF r2.err # NoErr
            THEN {[w |-> r2.w, val |-> RNil, err |-> r2.err,
                   tries |-> 1, auths |-> 1, first |-> r1.err, autherr |-> r2.err]}
            ELSE {[w |-> r3.w, val |-> r3.val, err |-> r3.err,
                   tries |-> 2, auths |-> 1, first |-> r1.err, autherr |-> NoErr]
                    : r3 \in {DriverDo(r2.w, cmd, f3) : f3 \in Fails}}
            : r2 \in {DriverDo(r1.w, CmdAuth(pw), f2) : f2 \in Fails}}
        ELSE {[w |-> r1.w, val |-> r1.val, err |-> r1.err,
               tries |-> 1, auths |-> 0, first |-> r1.err, autherr |-> NoErr]}
        : r1 \in {DriverDo(w, cmd, f1) : f1 \in Fails}}

\* connection.Do as it would be if it re-sent the command whatever AUTH returned.
connDoRetryAnyway(w, pw, cmd) ==
    UNION {
        IF r1.err = redigoErrNoAuth /\ pw # ""
        THEN UNION {
            {[w |-> r3.w, val |-> r3.val, err |-> r3.err,
              tries |-> 2, auths |-> 1, first |-> r1.err, autherr |-> r2.err]
               : r3 \in {DriverDo(r2.w, cmd, f3) : f3 \in Fails}}
            : r2 \in {DriverDo(r1.w, CmdAuth(pw), f2) : f2 \in Fails}}
        ELSE {[w |-> r1.w, val |-> r1.val, err |-> r1.err,
               tries |-> 1, auths |-> 0, first |-> r1.err, autherr |-> NoErr]}
        : r1 \in {DriverDo(w, cmd, f1) : f1 \in Fails}}

\* connection.Do: the set of its possible outcomes, one for each way the
\* driver round trips can go.  r1 is the first attempt, r2 the AUTH, r3 the
\* second attempt.  An outcome also reports how many times the command and
\* AUTH were handed to the driver, and the errors of the first attempt and of
\* AUTH.
connDo(w, pw, cmd) ==
    UNION {
        IF r1.err = redigoErrNoAuth /\ pw # ""
        THEN UNION {
            IF r2.err # NoErr
            THEN {[w |-> r2.w, val |-> RNil, err |-> r2.err,
                   tries |-> 1, auths |-> 1, first |-> r1.err, autherr |-> r2.err]}
            ELSE {[w |-> r3.w, val |-> r3.val, err |-> r3.err,
                   tries |-> 2, auths |-> 1, first |-> r1.err, autherr |-> NoErr]
                    : r3 \in {DriverDo(r2.w, cmd, f3) : f3 \in Fails}}
            : r2 \in {DriverDo(r1.w, CmdAuth(pw), f2) : f2 \in Fails}}
        ELSE {[w |-> r1.w, val |-> r1.val, err |-> r1.err,
               tries |-> 1, auths |-> 0, first |-> r1.err, autherr |-> NoErr]}
        : r1 \in {DriverDo(w, cmd, f1) : f1 \in Fails}}

\* redigo.Values, redigo.String: the conversions the typed methods apply.
redigoValues(val, err) ==
    IF err # NoErr THEN [val |-> <<>>, err |-> err]
    ELSE CASE val.t = "array" -> [val |-> val.a, err |-> NoErr]
           [] val.t = "nil" -> [val |-> <<>>, err |-> ErrNil]
           [] val.t = "err" -> [val |-> <<>>, err |-> val.e]
           [] OTHER -> [val |-> <<>>, err |-> ErrUnexpected]

redigoString(val, err) ==
    IF err # NoErr THEN [val |-> "", err |-> err]
    ELSE CASE val.t = "bulk" -> [val |-> val.b, err |-> NoErr]
           [] val.t = "status" -> [val |-> val.s, err |-> NoErr]
           [] val.t = "nil" -> [val |-> "", err |-> ErrNil]
           [] val.t = "err" -> [val |-> "", err |-> val.e]
           [] OTHER -> [val |-> "", err |-> ErrUnexpected]

\* connection.Multi as it would be if it sent EXEC right after MULTI.
MultiClosedAtOnce(w, fail) == DriverSend(DriverSend(w, CmdMulti, fail).w, CmdExec, fail)

\* connection.Multi as it would be if it sent nothing.
MultiUnsent(w, fail) == [w |-> w, err |-> NoErr]

\* connection.Multi
Multi(w, fail) == DriverSend(w, CmdMulti, fail)

\* connection.Exec as it would be if it sent MULTI once more before EXEC.
ExecAfterMulti(w, pw) ==
    {[w |-> r.w, val |-> redigoValues(r.val, r.err).val,
      err |-> redigoValues(r.val, r.err).err,
      tries |-> r.tries, auths |-> r.auths]
        : r \in connDo([w EXCEPT !.c.out = Append(@, CmdMulti)], pw, CmdExec)}

\* connection.Exec: the set of its possible outcomes.
Exec(w, pw) ==
    {[w |-> r.w, val |-> redigoValues(r.val, r.err).val,
      err |-> redigoValues(r.val, r.err).err,
      tries |-> r.tries, auths |-> r.auths] : r \in connDo(w, pw, CmdExec)}

World == [c |-> c, srv |-> srv, obs |-> obs]
Fresh == [c |-> c, srv |-> srv, obs |-> <<>>]

ListLen == IF srv.db.kind = "list" THEN srv.db.len ELSE 0
Pushes(q) == Cardinality({i \in 1..Len(q) : q[i].op = "LPUSH"})

DataCmds == {CmdLPush, CmdDel} \cup {CmdHMGet(f) : f \in FieldLists \ {<<>>}}

----------------------------------------------------------------------------
\* The batch executor (sendOnlyConnection).  ex.sent lists the commands the
\* driver accepted from this executor, ex.fails tells whether a send failed,
\* ex.stale is the number of replies that were unread when it was created,
\* ex.oks is the number of its batch methods that returned nil.

NoExec ==
    [mode |-> "none", counter |-> 0, sent |-> <<>>, fails |-> 0, stale |-> 0, oks |-> 0]

\* asPipeline, asTransaction
NewExec(mode) ==
    [mode |-> mode, counter |-> 0, sent |-> <<>>, fails |-> 0, stale |-> Len(c.inq),
     oks |-> 0]

\* count as it would be if it incremented whatever Send returned.
countAlways(counter, err) == [counter |-> counter + 1, err |-> err]

\* sendOnlyConnection.count
count(counter, err) ==
    IF err # NoErr THEN [counter |-> counter, err |-> err]
    ELSE [counter |-> counter + 1, err |-> NoErr]

\* The loop of receiveAll as it would be if it returned, with the error, the
\* replies read before it.
RECURSIVE RecvLoopPartial(_, _, _, _, _)
RecvLoopPartial(w, i, counter, replies, failAt) ==
    IF i >= counter
    THEN [w |-> w, counter |-> 0, val |-> replies, err |-> NoErr, nrecv |-> i]
    ELSE LET r == DriverReceive(w, failAt = i + 1)
         IN  IF r.err # NoErr
             THEN [w |-> r.w, counter |-> counter, val |-> replies, err |-> r.err,
                   nrecv |-> i + 1]
             ELSE RecvLoopPartial(r.w, i + 1, counter, Append(replies, r.val), failAt)

\* The loop of receiveAll as it would be if it reset the counter when a
\* Receive fails.
RECURSIVE RecvLoopResetting(_, _, _, _, _)
RecvLoopResetting(w, i, counter, replies, failAt) ==
    IF i >= counter
    THEN [w |-> w, counter |-> 0, val |-> replies, err |-> NoErr, nrecv |-> i]
    ELSE LET r == DriverReceive(w, failAt = i + 1)
         IN  IF r.err # NoErr
             THEN [w |-> r.w, counter |-> 0, val |-> <<>>, err |-> r.err,
                   nrecv |-> i + 1]
             ELSE RecvLoopResetting(r.w, i + 1, counter, Append(replies, r.val), failAt)

\* The loop of receiveAll: i replies are read; nrecv counts the calls of Receive.
RECURSIVE RecvLoop(_, _, _, _, _)
RecvLoop(w, i, counter, replies, failAt) ==
    IF i >= counter
    THEN [w |-> w, counter |-> 0, val |-> replies, err |-> NoErr, nrecv |-> i]
    ELSE LET r == DriverReceive(w, failAt = i + 1)
         IN  IF r.err # NoErr
             THEN [w |-> r.w, counter |-> counter, val |-> <<>>, err |-> r.err,
                   nrecv |-> i + 1]
             ELSE RecvLoop(r.w, i + 1, counter, Append(replies, r.val), failAt)

\* receiveAll as it would be if it lost the first reply it read.
receiveAllDropFirst(w, counter, failAt) ==
    LET ra == RecvLoop(w, 0, counter, <<>>, failAt)
    IN  IF ra.val = <<>> THEN ra ELSE [ra EXCEPT !.val = Tail(@)]

\* receiveAll as it would be without the test for a counter of zero, reading
\* once before it looks at the counter.
receiveAllReadFirst(w, counter, failAt) ==
    IF counter = 0
    THEN LET r == DriverReceive(w, FALSE)
         IN  [w |-> r.w, counter |-> 0, val |-> <<>>, err |-> r.err, nrecv |-> 1]
    ELSE RecvLoop(w, 0, counter, <<>>, failAt)

\* sendOnlyConnection.receiveAll; failAt is the Receive that meets a transport
\* failure (0: none).  A nil slice is the empty sequence.
receiveAll(w, counter, failAt) ==
    IF counter = 0
    THEN [w |-> w, counter |-> 0, val |-> <<>>, err |-> NoErr, nrecv |-> 0]
    ELSE RecvLoop(w, 0, counter, <<>>, failAt)

InBatch == ex.mode \in {"pipe", "disc", "tx"}
Room == Len(c.inq) + ex.counter < MaxPending

\* A batch method of the form  return s.count(s.c.Send(...)); n is the number
\* of fields or pairs the caller passed.
BatchCall(name, n, cmd, fail) ==
    LET r == DriverSend(World, cmd, fail)
        k == count(ex.counter, r.err)
    IN  /\ c' = r.w.c
        /\ ex' = [ex EXCEPT !.counter = k.counter,
                            !.sent = IF r.err = NoErr THEN Append(@, cmd) ELSE @,
                            !.fails = IF r.err # NoErr THEN 1 ELSE @,
                            !.oks = IF k.err = NoErr THEN @ + 1 ELSE @]
        /\ last' = [op |-> name, n |-> n, err |-> k.err, before |-> ex.counter,
                    sendCalled |-> TRUE, senderr |-> r.err]
        /\ UNCHANGED <<srv, password, obs, poolVars, hostsNotUsingAuth, settled, threadVars, txVars>>

\* A batch method that returns before it calls Send.
BatchReturn(name, n, err) ==
    /\ last' = [op |-> name, n |-> n, err |-> err, before |-> ex.counter,
                sendCalled |-> FALSE, senderr |-> NoErr]
    /\ ex' = [ex EXCEPT !.oks = IF err = NoErr THEN @ + 1 ELSE @]
    /\ UNCHANGED <<c, srv, password, obs, poolVars, hostsNotUsingAuth, settled, threadVars, txVars>>

\* sendOnlyConnection.LPush
BatchLPush ==
    /\ InBatch /\ Room
    /\ ListLen + Pushes(c.out) < MaxList
    /\ \E fail \in BOOLEAN : BatchCall("BatchLPush", 1, CmdLPush, fail)

\* sendOnlyConnection.HMGet as it would be without the test of len(fields).
BatchHMGetUnchecked ==
    /\ InBatch /\ Room
    /\ \E f \in FieldLists, fail \in BOOLEAN :
          BatchCall("BatchHMGet", Len(f), CmdHMGet(f), fail)

\* sendOnlyConnection.HMGet
BatchHMGet ==
    /\ InBatch /\ Room
    /\ \E f \in FieldLists, fail \in BOOLEAN :
          IF Len(f) = 0 THEN BatchReturn("BatchHMGet", 0, ErrNoFields)
          ELSE BatchCall("BatchHMGet", Len(f), CmdHMGet(f), fail)

\* sendOnlyConnection.HMSet
BatchHMSet ==
    /\ InBatch /\ Room
    /\ \E m \in Maps, fail \in BOOLEAN : \E kv \in mapToSlice(m) :
          BatchCall("BatchHMSet", Cardinality(DOMAIN m), CmdHMSet(kv), fail)

\* The arguments the callers pass to the sorted-set batch methods.
ZArgLists == {<<>>, <<"1", "m">>}
ZMemberLists == {<<>>, <<"m">>}
ZMembers == {"", "m"}

\* The batch method may return nil once more without sending.
MayReturn == ex.oks < ex.counter + MaxCalls

\* sendOnlyConnection.ZAdd
BatchZAdd ==
    /\ InBatch /\ Room
    /\ \E args \in ZArgLists, fail \in BOOLEAN :
          IF Len(args) = 0 THEN MayReturn /\ BatchReturn("BatchZAdd", 0, NoErr)
          ELSE BatchCall("BatchZAdd", Len(args), CmdZAdd(args), fail)

\* sendOnlyConnection.ZRem as it would be without the test of len(members).
BatchZRemUnchecked ==
    /\ InBatch /\ Room
    /\ \E members \in ZMemberLists, fail \in BOOLEAN :
          BatchCall("BatchZRem", Len(members), CmdZRem(members), fail)

\* sendOnlyConnection.ZRem
BatchZRem ==
    /\ InBatch /\ Room
    /\ \E members \in ZMemberLists, fail \in BOOLEAN :
          IF Len(members) = 0 THEN MayReturn /\ BatchReturn("BatchZRem", 0, NoErr)
          ELSE BatchCall("BatchZRem", Len(members), CmdZRem(members), fail)

\* sendOnlyConnection.ZScore; n is the length of the member.
BatchZScore ==
    /\ InBatch /\ Room
    /\ \E member \in ZMembers, fail \in BOOLEAN :
          IF member = "" THEN MayReturn /\ BatchReturn("BatchZScore", 0, NoErr)
          ELSE BatchCall("BatchZScore", 1, CmdZScore(member), fail)

----------------------------------------------------------------------------
\* connection: the calls a caller makes on one connection.

\* No call is in progress and the connection has met no fatal error (a
\* connection that has is closed, not used again).
Idle == ex.mode = "none" /\ c.err = NoErr

\* connection.Do
Do ==
    /\ Idle
    /\ \E cmd \in DataCmds :
          /\ cmd.op = "LPUSH" => ListLen < MaxList
          /\ \E r \in connDo(Fresh, password, cmd) :
                /\ c' = r.w.c
                /\ srv' = r.w.srv
                /\ obs' = r.w.obs
                /\ last' = [op |-> "Do", cmd |-> cmd, val |-> r.val, err |-> r.err,
                            tries |-> r.tries, auths |-> r.auths,
                            first |-> r.first, autherr |-> r.autherr]
    /\ UNCHANGED <<password, ex, poolVars, hostsNotUsingAuth, settled, threadVars, txVars>>

\* connection.HMSet
HMSet ==
    /\ Idle
    /\ \E m \in Maps :
          IF Cardinality(DOMAIN m) = 0
          THEN /\ last' = [op |-> "HMSet", n |-> Cardinality(DOMAIN m), err |-> ErrNoPairs]
               /\ obs' = <<>>
               /\ UNCHANGED <<c, srv, poolVars, hostsNotUsingAuth, settled, threadVars, txVars>>
          ELSE \E kv \in mapToSlice(m) :
                  \E r \in connDo(Fresh, password, CmdHMSet(kv)) :
                     LET v == redigoString(r.val, r.err)
                     IN  /\ c' = r.w.c
                         /\ srv' = r.w.srv
                         /\ obs' = r.w.obs
                         /\ last' = [op |-> "HMSet", n |-> Cardinality(DOMAIN m),
                                     err |-> IF v.err # NoErr THEN v.err
                                             ELSE IF v.val # "OK" THEN ErrNotOK
                                             ELSE NoErr]
    /\ UNCHANGED <<password, ex, poolVars, hostsNotUsingAuth, settled, threadVars, txVars>>

\* connection.Pipelined up to the call of f.
PipelinedBegin ==
    /\ Idle
    /\ ex' = NewExec("pipe")
    /\ obs' = <<>>
    /\ last' = [op |-> "asPipeline"]
    /\ UNCHANGED <<c, srv, password, poolVars, hostsNotUsingAuth, settled, threadVars, txVars>>

\* connection.Pipelined after f returned: Flush, then receiveAll.
PipelinedEnd ==
    /\ ex.mode = "pipe"
    /\ \E ff \in BOOLEAN, failAt \in 0..ex.counter :
          LET fl == DriverFlush(World, ff)
          IN  IF fl.err # NoErr
              THEN /\ c' = fl.w.c
                   /\ srv' = fl.w.srv
                   /\ obs' = fl.w.obs
                   /\ ex' = [ex EXCEPT !.mode = "none"]
                   /\ last' = [op |-> "Pipelined", val |-> <<>>, err |-> fl.err,
                               nrecv |-> 0, flusherr |-> fl.err,
                               before |-> ex.counter]
              ELSE LET ra == receiveAll(fl.w, ex.counter, failAt)
                   IN  /\ c' = ra.w.c
                       /\ srv' = ra.w.srv
                       /\ obs' = ra.w.obs
                       /\ ex' = [ex EXCEPT !.mode = "none", !.counter = ra.counter]
                       /\ last' = [op |-> "Pipelined", val |-> ra.val, err |-> ra.err,
                                   nrecv |-> ra.nrecv, flusherr |-> NoErr,
                                   before |-> ex.counter]
    /\ UNCHANGED <<password, poolVars, hostsNotUsingAuth, settled, threadVars, txVars>>

\* connection.PipelinedDiscarding up to the call of f.
PipelinedDiscardingBegin ==
    /\ Idle
    /\ ex' = NewExec("disc")
    /\ obs' = <<>>
    /\ last' = [op |-> "asPipeline"]
    /\ UNCHANGED <<c, srv, password, poolVars, hostsNotUsingAuth, settled, threadVars, txVars>>

\* connection.PipelinedDiscarding as it would be if it read the replies as
\* Pipelined does and returned the error of the drain.
PipelinedDiscardingEndDraining ==
    /\ ex.mode = "disc"
    /\ \E ff \in BOOLEAN :
          LET fl == DriverFlush(World, ff)
              ra == receiveAll(fl.w, ex.counter, 0)
          IN  /\ c' = IF fl.err # NoErr THEN fl.w.c ELSE ra.w.c
              /\ srv' = fl.w.srv
              /\ obs' = fl.w.obs
              /\ last' = [op |-> "PipelinedDiscarding",
                          err |-> IF fl.err # NoErr THEN fl.err ELSE ra.err,
                          flushfail |-> (ff /\ c.err = NoErr)]
    /\ ex' = [ex EXCEPT !.mode = "none"]
    /\ UNCHANGED <<password, poolVars, hostsNotUsingAuth, settled, threadVars, txVars>>

\* connection.PipelinedDiscarding as it would be if the Flush threw away what
\* the server answered.
PipelinedDiscardingEndDropping ==
    /\ ex.mode = "disc"
    /\ \E ff \in BOOLEAN :
          LET fl == DriverFlush(World, ff)
          IN  /\ c' = [fl.w.c EXCEPT !.inq = c.inq, !.pending = 0]
              /\ srv' = fl.w.srv
              /\ obs' = fl.w.obs
              /\ last' = [op |-> "PipelinedDiscarding", err |-> fl.err,
                          flushfail |-> (ff /\ c.err = NoErr)]
    /\ ex' = [ex EXCEPT !.mode = "none"]
    /\ UNCHANGED <<password, poolVars, hostsNotUsingAuth, settled, threadVars, txVars>>

\* connection.PipelinedDiscarding after f returned: Flush.  flushfail tells
\* whether the write of this Flush failed.
PipelinedDiscardingEnd ==
    /\ ex.mode = "disc"
    /\ \E ff \in BOOLEAN :
          LET fl == DriverFlush(World, ff)
          IN  /\ c' = fl.w.c
              /\ srv' = fl.w.srv
              /\ obs' = fl.w.obs
              /\ last' = [op |-> "PipelinedDiscarding", err |-> fl.err,
                          flushfail |-> (ff /\ c.err = NoErr)]
    /\ ex' = [ex EXCEPT !.mode = "none"]
    /\ UNCHANGED <<password, poolVars, hostsNotUsingAuth, settled, threadVars, txVars>>

\* connection.Transaction up to the call of f: Multi, then asTransaction.
TransactionBegin ==
    /\ Idle
    /\ \E fail \in BOOLEAN :
          LET r == Multi(Fresh, fail)
          IN  /\ c' = r.w.c
              /\ obs' = <<>>
              /\ IF r.err # NoErr
                 THEN /\ ex' = NoExec
                      /\ last' = [op |-> "Transaction", val |-> <<>>, err |-> r.err,
                                  invoked |-> FALSE, tries |-> 0, auths |-> 0]
                 ELSE /\ ex' = NewExec("tx")
                      /\ last' = [op |-> "asTransaction"]
    /\ applied' = <<>>
    /\ UNCHANGED <<srv, password, poolVars, hostsNotUsingAuth, settled, threadVars, wire>>

\* connection.Transaction after f returned, as it would be if it returned the
\* error without calling Exec when a send inside f had failed.
TransactionEndUnlessFailed ==
    /\ ex.mode = "tx"
    /\ IF ex.fails > 0
       THEN /\ last' = [op |-> "Transaction", val |-> <<>>, err |-> c.err,
                        invoked |-> TRUE, tries |-> 0, auths |-> 0]
            /\ UNCHANGED <<c, srv, obs>>
       ELSE \E r \in Exec(World, password) :
               /\ c' = r.w.c
               /\ srv' = r.w.srv
               /\ obs' = r.w.obs
               /\ last' = [op |-> "Transaction", val |-> r.val, err |-> r.err,
                           invoked |-> TRUE, tries |-> r.tries, auths |-> r.auths]
    /\ ex' = [ex EXCEPT !.mode = "none"]
    /\ UNCHANGED <<password, poolVars, hostsNotUsingAuth, settled, threadVars, txVars>>

\* connection.Transaction after f returned: Exec.
TransactionEnd ==
    /\ ex.mode = "tx"
    /\ \E r \in Exec(World, password) :
          /\ c' = r.w.c
          /\ srv' = r.w.srv
          /\ obs' = r.w.obs
          /\ last' = [op |-> "Transaction", val |-> r.val, err |-> r.err,
                      invoked |-> TRUE, tries |-> r.tries, auths |-> r.auths]
    /\ ex' = [ex EXCEPT !.mode = "none"]
    /\ UNCHANGED <<password, poolVars, hostsNotUsingAuth, settled, threadVars, txVars>>

\* Another client reconfigures the server: CONFIG SET requirepass.  The change
\* reaches this connection with its next round trip, so a change made while f
\* runs is the same as one made just before the call.
ConfigSetRequirepass ==
    /\ ex.mode = "none"
    /\ \E rp \in {"", "testpass"} :
          /\ rp # srv.requirepass
          /\ srv' = [srv EXCEPT !.requirepass = rp]
    /\ UNCHANGED <<c, password, ex, last, obs, poolVars, hostsNotUsingAuth, settled, threadVars, txVars>>

\* The hosts of the URLs in use; UrlHost is the host of the connection and of
\* the pool.
Hosts == {"localhost", "otherhost"}
UrlHost == "localhost"

\* hostsNotUsingAuth.Get(url.Host), when no other goroutine uses the cache.
Cached == UrlHost \in hostsNotUsingAuth

\* Connecting succeeds when the server takes the URL's password or asks for none.
ConnectOK(rp, pw) == rp = "" \/ pw \in {"", rp}

\* redisurl.ConnectToURL for a URL with password pw ("": none) that names a
\* database or not (db), to a server that requires the password rp ("": none):
\* it dials, sends AUTH if the URL has a password, and SELECT if it names a
\* database, and returns the first error.
ConnectToURL(rp, pw, db) ==
    IF pw # "" /\ rp = "" THEN [err |-> redigoErrSentAuth, authed |-> FALSE]
    ELSE IF pw # "" /\ pw # rp THEN [err |-> ErrInvalidPassword, authed |-> FALSE]
    ELSE IF db /\ rp # "" /\ pw = "" THEN [err |-> redigoErrNoAuth, authed |-> FALSE]
    ELSE [err |-> NoErr, authed |-> (rp # "" /\ pw = rp)]

\* generateConnection as it would be if it returned the error of the first
\* connect attempt.
generateConnectionNoFallback(h, rp, pw, db) ==
    LET r == ConnectToURL(rp, IF h THEN "" ELSE pw, db)
    IN  [hosts |-> h, err |-> r.err, authed |-> r.authed,
         noauth |-> (r.err = redigoErrNoAuth),
         sentauth |-> (r.err = redigoErrSentAuth),
         tried |-> <<IF h THEN "" ELSE pw>>]

\* generateConnection as it would be if it retried without writing to
\* hostsNotUsingAuth.
RECURSIVE generateConnectionForgetful(_, _, _, _)
generateConnectionForgetful(h, rp, pw, db) ==
    IF h
    THEN LET r == ConnectToURL(rp, "", db)
         IN  IF r.err = redigoErrNoAuth
             THEN LET g == generateConnectionNoFallback(FALSE, rp, "", db)
                  IN  [g EXCEPT !.noauth = TRUE, !.tried = <<"">> \o @, !.hosts = h]
             ELSE [hosts |-> h, err |-> r.err, authed |-> r.authed,
                   noauth |-> FALSE, sentauth |-> FALSE, tried |-> <<"">>]
    ELSE LET r == ConnectToURL(rp, pw, db)
         IN  IF r.err = redigoErrSentAuth
             THEN LET g == generateConnectionNoFallback(TRUE, rp, pw, db)
                  IN  [g EXCEPT !.sentauth = TRUE, !.tried = <<pw>> \o @, !.hosts = h]
             ELSE [hosts |-> h, err |-> r.err, authed |-> r.authed,
                   noauth |-> (r.err = redigoErrNoAuth), sentauth |-> FALSE,
                   tried |-> <<pw>>]

\* generateConnection; h tells whether the host is in hostsNotUsingAuth, and
\* pw is the password of url.User, which the first branch removes from the URL
\* it was given.  The result tells which of the two errors the server answered
\* (noauth, sentauth) and lists the passwords of the connect attempts (tried).
RECURSIVE generateConnection(_, _, _, _)
generateConnection(h, rp, pw, db) ==
    IF h
    THEN LET r == ConnectToURL(rp, "", db)
         IN  IF r.err = redigoErrNoAuth
             THEN [generateConnection(FALSE, rp, "", db)
                      EXCEPT !.noauth = TRUE, !.tried = <<"">> \o @]
             ELSE [hosts |-> h, err |-> r.err, authed |-> r.authed,
                   noauth |-> FALSE, sentauth |-> FALSE, tried |-> <<"">>]
    ELSE LET r == ConnectToURL(rp, pw, db)
         IN  IF r.err = redigoErrSentAuth
             THEN [generateConnection(TRUE, rp, pw, db)
                      EXCEPT !.sentauth = TRUE, !.tried = <<pw>> \o @]
             ELSE [hosts |-> h, err |-> r.err, authed |-> r.authed,
                   noauth |-> (r.err = redigoErrNoAuth), sentauth |-> FALSE,
                   tried |-> <<pw>>]

\* What NewConnection returned: the error, what the server answered, the
\* passwords of the connect attempts, and, from the time of the call, whether
\* the host was in hostsNotUsingAuth, the server's password, and whether the
\* URL named a database.
Connected(g, h, rp, db) ==
    [op |-> "NewConnection", err |-> g.err, noauth |-> g.noauth,
     sentauth |-> g.sentauth, tried |-> g.tried, cached |-> h, rp |-> rp, db |-> db]

\* Close, then NewConnection with a URL of the same password, after a fatal
\* error.  If it fails there is no new connection.
Reconnect ==
    /\ ex.mode = "none"
    /\ c.err # NoErr
    /\ \E db \in BOOLEAN :
          LET g == generateConnection(Cached, srv.requirepass, password, db)
          IN  /\ hostsNotUsingAuth' = IF g.hosts THEN hostsNotUsingAuth \cup {UrlHost}
                                      ELSE hostsNotUsingAuth \ {UrlHost}
              /\ settled' = hostsNotUsingAuth'
              /\ last' = Connected(g, Cached, srv.requirepass, db)
              /\ IF g.err = NoErr
                 THEN /\ c' = [out |-> <<>>, inq |-> <<>>, pending |-> 0, err |-> NoErr]
                      /\ srv' = [srv EXCEPT !.authed = g.authed,
                                            !.multi = "off", !.queue = <<>>]
                 ELSE UNCHANGED <<c, srv>>
    /\ obs' = <<>>
    /\ UNCHANGED <<password, ex, poolVars, threadVars, txVars>>

----------------------------------------------------------------------------
\* The pool.  p is the driver's pool (redigo.Pool) the package configures and
\* calls; p.idle lists the idle connections, the most recently returned first;
\* p.active counts the open connections, idle, leased or being dialed.

Unlimited == 0
DefaultConfig == [MaxOpenConnections |-> Unlimited, MaxIdleConnections |-> 10,
                  IdleTimeout |-> 0]

ErrPoolExhausted == "connection pool exhausted"
redigoErrPoolExhausted == "redigo: connection pool exhausted"
redigoErrPoolClosed == "redigo: get on closed pool"
ErrDial == "dial tcp: connection refused"

ConnIds == 1..MaxDials
NoConn == 0

\* NewPoolWithURL
NewPoolWithURL(config) ==
    [MaxActive |-> config.MaxOpenConnections, MaxIdle |-> config.MaxIdleConnections,
     IdleTimeout |-> config.IdleTimeout, active |-> 0, idle |-> <<>>, closed |-> FALSE]

\* A connection is unopened ("none"), idle, leased or closed; by is the call
\* that holds a leased connection, and "none" if no call holds it.
Unopened == [state |-> "none", by |-> "none", err |-> FALSE, expired |-> FALSE]
Closed == [state |-> "closed", by |-> "none", err |-> FALSE, expired |-> FALSE]
Front(q) == SubSeq(q, 1, Len(q) - 1)
Leased(cs) == {id \in ConnIds : cs[id].state = "leased"}
UnopenedIds(cs) == {id \in ConnIds : cs[id].state = "none"}

\* The idle connections that outlived IdleTimeout are closed, oldest first.
RECURSIVE Prune(_, _)
Prune(pp, cs) ==
    IF pp.idle # <<>> /\ cs[pp.idle[Len(pp.idle)]].expired
    THEN Prune([pp EXCEPT !.idle = Front(@), !.active = @ - 1],
               [cs EXCEPT ![pp.idle[Len(pp.idle)]] = Closed])
    ELSE [p |-> pp, conns |-> cs]

\* s.p.Get as it would be if it opened a new connection whenever MaxActive
\* allows one, and took an idle connection only otherwise.
getDialFirst(pp, cs) ==
    LET pr == Prune(pp, cs)
    IN  IF ~pr.p.closed /\ (pr.p.MaxActive = 0 \/ pr.p.active < pr.p.MaxActive)
        THEN [p |-> [pr.p EXCEPT !.active = @ + 1], conns |-> pr.conns,
              id |-> NoConn, err |-> NoErr, dial |-> TRUE]
        ELSE IF pr.p.idle # <<>>
        THEN [p |-> [pr.p EXCEPT !.idle = Tail(@)],
              conns |-> [pr.conns EXCEPT ![Head(pr.p.idle)].state = "leased"],
              id |-> Head(pr.p.idle), err |-> NoErr, dial |-> FALSE]
        ELSE IF pr.p.closed
        THEN [p |-> pr.p, conns |-> pr.conns, id |-> NoConn,
              err |-> redigoErrPoolClosed, dial |-> FALSE]
        ELSE [p |-> pr.p, conns |-> pr.conns, id |-> NoConn,
              err |-> redigoErrPoolExhausted, dial |-> FALSE]

\* s.p.Get as it would be if it never looked at MaxActive.
getNoCeiling(pp, cs) ==
    LET pr == Prune(pp, cs)
    IN  IF pr.p.idle # <<>>
        THEN [p |-> [pr.p EXCEPT !.idle = Tail(@)],
              conns |-> [pr.conns EXCEPT ![Head(pr.p.idle)].state = "leased"],
              id |-> Head(pr.p.idle), err |-> NoErr, dial |-> FALSE]
        ELSE IF pr.p.closed
        THEN [p |-> pr.p, conns |-> pr.conns, id |-> NoConn,
              err |-> redigoErrPoolClosed, dial |-> FALSE]
        ELSE [p |-> [pr.p EXCEPT !.active = @ + 1], conns |-> pr.conns,
              id |-> NoConn, err |-> NoErr, dial |-> TRUE]

\* s.p.Get, up to the dial: an idle connection if there is one, else room for
\* a new one under MaxActive, else an error.
get(pp, cs) ==
    LET pr == Prune(pp, cs)
    IN  IF pr.p.idle # <<>>
        THEN [p |-> [pr.p EXCEPT !.idle = Tail(@)],
              conns |-> [pr.conns EXCEPT ![Head(pr.p.idle)].state = "leased"],
              id |-> Head(pr.p.idle), err |-> NoErr, dial |-> FALSE]
        ELSE IF pr.p.closed
        THEN [p |-> pr.p, conns |-> pr.conns, id |-> NoConn,
              err |-> redigoErrPoolClosed, dial |-> FALSE]
        ELSE IF pr.p.MaxActive = 0 \/ pr.p.active < pr.p.MaxActive
        THEN [p |-> [pr.p EXCEPT !.active = @ + 1], conns |-> pr.conns,
              id |-> NoConn, err |-> NoErr, dial |-> TRUE]
        ELSE [p |-> pr.p, conns |-> pr.conns, id |-> NoConn,
              err |-> redigoErrPoolExhausted, dial |-> FALSE]

\* Release as it would be if the driver's pool did not look at the error of
\* the connection.
ReleaseBroken(pp, cs, id) ==
    IF ~pp.closed
    THEN LET idle == <<id>> \o pp.idle
         IN  IF Len(idle) > pp.MaxIdle
             THEN [p |-> [pp EXCEPT !.idle = Front(idle), !.active = @ - 1],
                   conns |-> [[cs EXCEPT ![id].state = "idle", ![id].by = "none"]
                                 EXCEPT ![idle[Len(idle)]] = Closed]]
             ELSE [p |-> [pp EXCEPT !.idle = idle],
                   conns |-> [cs EXCEPT ![id].state = "idle", ![id].by = "none"]]
    ELSE [p |-> [pp EXCEPT !.active = @ - 1],
          conns |-> [cs EXCEPT ![id] = Closed]]

\* Release as it would be if a pool that was shut down still kept connections.
ReleaseAfterShutdown(pp, cs, id) ==
    IF ~cs[id].err
    THEN LET idle == <<id>> \o pp.idle
         IN  IF Len(idle) > pp.MaxIdle
             THEN [p |-> [pp EXCEPT !.idle = Front(idle), !.active = @ - 1],
                   conns |-> [[cs EXCEPT ![id].state = "idle", ![id].by = "none"]
                                 EXCEPT ![idle[Len(idle)]] = Closed]]
             ELSE [p |-> [pp EXCEPT !.idle = idle],
                   conns |-> [cs EXCEPT ![id].state = "idle", ![id].by = "none"]]
    ELSE [p |-> [pp EXCEPT !.active = @ - 1],
          conns |-> [cs EXCEPT ![id] = Closed]]

\* Release as it would be if the driver's pool kept every connection returned
\* to it, whatever MaxIdle is.
ReleaseNoCeiling(pp, cs, id) ==
    IF ~pp.closed /\ ~cs[id].err
    THEN [p |-> [pp EXCEPT !.idle = <<id>> \o @],
          conns |-> [cs EXCEPT ![id].state = "idle", ![id].by = "none"]]
    ELSE [p |-> [pp EXCEPT !.active = @ - 1],
          conns |-> [cs EXCEPT ![id] = Closed]]

\* connection.Release: s.c.Close() hands the connection back to the driver's
\* pool, which keeps it idle or closes it.
Release(pp, cs, id) ==
    IF ~pp.closed /\ ~cs[id].err
    THEN LET idle == <<id>> \o pp.idle
         IN  IF Len(idle) > pp.MaxIdle
             THEN [p |-> [pp EXCEPT !.idle = Front(idle), !.active = @ - 1],
                   conns |-> [[cs EXCEPT ![id].state = "idle", ![id].by = "none"]
                                 EXCEPT ![idle[Len(idle)]] = Closed]]
             ELSE [p |-> [pp EXCEPT !.idle = idle],
                   conns |-> [cs EXCEPT ![id].state = "idle", ![id].by = "none"]]
    ELSE [p |-> [pp EXCEPT !.active = @ - 1],
          conns |-> [cs EXCEPT ![id] = Closed]]

\* The deferred return as it would be if a panic in the callback skipped it.
ReturnUnlessPanic(pp, cs, id, out) ==
    IF out = "panic" THEN [p |-> pp, conns |-> cs] ELSE Release(pp, cs, id)

\* defer s.Return(c): runs however the operation ends.
DeferredReturn(pp, cs, id, out) == Release(pp, cs, id)

\* What a call returned: err from GetConnection, out from the operation on
\* the connection; for a call of GetConnection, held and busy are the numbers
\* of connections leased, and leased or being dialed, when the call was made,
\* and out tells whether the connection came from the idle set ("idle") or
\* from the generator ("new"); for a call of Return, out tells what became of
\* the connection: "kept" idle, kept while the oldest idle one was closed
\* ("evicts"), or "closed"; out is "panic" if the call panicked.  For a
\* GetConnection that failed, out is "pruned" if the call closed idle
\* connections that had outlived IdleTimeout, and "none" otherwise.
Result(op, err, out, held, busy) ==
    [op |-> op, err |-> err, out |-> out, held |-> held, busy |-> busy]

\* The pool-level methods have two shapes: those that take a callback (Do,
\* and Transaction, Pipelined, PipelinedDiscarding, which pass it on), and the
\* per-command methods (Get, Set, ...), which take none.
PoolOps == {"Do", "Get"}

InProgress == BagCardinality(dialing) + Cardinality(Leased(conns))

\* GetConnection's error as it would be if it passed the driver's error on.
leaseErrUnmapped(err) == err

\* GetConnection's error as it would be if it reported every error of the
\* driver's pool as exhaustion.
leaseErrExhaustedForAll(err) == IF err # NoErr THEN ErrPoolExhausted ELSE err

\* The error GetConnection returns for the error of the driver's pool.
leaseErr(err) == IF err = redigoErrPoolExhausted THEN ErrPoolExhausted ELSE err

\* pool.GetConnection up to the dial, called for op.
Lease(op) ==
    /\ InProgress < NumCallers
    /\ LET g == get(p, conns)
           held == IF op = "GetConnection" THEN Cardinality(Leased(conns)) ELSE 0
           busy == IF op = "GetConnection" THEN p.active - Len(p.idle) ELSE 0
           pruned == op = "GetConnection" /\ g.p.active < p.active
       IN  /\ g.dial => Cardinality(UnopenedIds(conns)) > BagCardinality(dialing)
           /\ p' = g.p
           /\ IF g.dial
              THEN /\ dialing' = dialing (+) SetToBag({[op |-> op, held |-> held,
                                                        busy |-> busy,
                                                        pruned |-> pruned]})
                   /\ conns' = g.conns
                   /\ plast' = plast
              ELSE IF g.err # NoErr
              THEN /\ dialing' = dialing
                   /\ conns' = g.conns
                   /\ plast' = Result(op, leaseErr(g.err),
                                       IF pruned THEN "pruned" ELSE "none", held, busy)
              ELSE /\ dialing' = dialing
                   /\ conns' = [g.conns EXCEPT ![g.id].by = op]
                   /\ plast' = IF op = "GetConnection"
                               THEN Result(op, NoErr, "idle", held, busy)
                               ELSE plast
    /\ UNCHANGED connVars

\* pool.GetConnection
GetConnection == Lease("GetConnection")

\* The generator returns to a waiting call: a new connection, or an error.
Dial ==
    /\ \E d \in BagToSet(dialing), ok \in BOOLEAN :
          /\ dialing' = dialing (-) SetToBag({d})
          /\ IF ok
             THEN LET id == CHOOSE i \in UnopenedIds(conns) :
                                \A k \in UnopenedIds(conns) : i <= k
                  IN  /\ conns' = [conns EXCEPT ![id].state = "leased", ![id].by = d.op]
                      /\ plast' = IF d.op = "GetConnection"
                                  THEN Result(d.op, NoErr, "new", d.held, d.busy)
                                  ELSE plast
                      /\ p' = p
             ELSE /\ p' = [p EXCEPT !.active = @ - 1]
                  /\ plast' = Result(d.op, leaseErr(ErrDial),
                                      IF d.pruned THEN "pruned" ELSE "none",
                                      d.held, d.busy)
                  /\ conns' = conns
    /\ UNCHANGED connVars

\* pool.Return as it would be without the test for nil: Release is called
\* on a nil interface, which panics.
poolReturnNoNilTest(pp, cs, id) ==
    IF id = NoConn THEN [p |-> pp, conns |-> cs, panic |-> TRUE]
    ELSE [p |-> Release(pp, cs, id).p, conns |-> Release(pp, cs, id).conns,
          panic |-> FALSE]

\* pool.Return; id is NoConn for Return(nil).
poolReturn(pp, cs, id) ==
    IF id = NoConn THEN [p |-> pp, conns |-> cs, panic |-> FALSE]
    ELSE [p |-> Release(pp, cs, id).p, conns |-> Release(pp, cs, id).conns,
          panic |-> FALSE]

\* What became of connection id between cs and cs2.
Kept(cs, cs2, id) ==
    IF cs2[id].state # "idle" THEN "closed"
    ELSE IF \E k \in ConnIds : cs[k].state = "idle" /\ cs2[k].state = "closed"
         THEN "evicts"
    ELSE "kept"

\* pool.Return of a leased connection.
Return ==
    /\ \E id \in Leased(conns) :
          /\ conns[id].by = "GetConnection"
          /\ LET r == poolReturn(p, conns, id)
             IN  /\ p' = r.p
                 /\ conns' = r.conns
                 /\ plast' = Result("Return", NoErr, Kept(conns, r.conns, id), 0, 0)
    /\ UNCHANGED <<connVars, dialing>>

\* pool.Return(nil)
ReturnNil ==
    /\ plast.op # "ReturnNil"
    /\ LET r == poolReturn(p, conns, NoConn)
       IN  /\ p' = r.p
           /\ conns' = r.conns
           /\ plast' = Result("ReturnNil", NoErr,
                              IF r.panic THEN "panic" ELSE "none", 0, 0)
    /\ UNCHANGED <<connVars, dialing>>

\* Release on a connection that was released already, as it would be if the
\* driver handed the connection to its pool a second time.
ReleaseAgainPuts(pp, cs, id) == Release(pp, cs, id)

\* connection.Release on a connection that was released already: the driver's
\* handle is closed, and closing it again does nothing.
ReleaseAgain(pp, cs, id) == [p |-> pp, conns |-> cs]

\* pool.Return of a connection that was returned before.
ReturnAgain ==
    /\ \E id \in ConnIds :
          /\ conns[id].state \in {"idle", "closed"}
          /\ LET r == ReleaseAgain(p, conns, id)
             IN  /\ p' = r.p
                 /\ conns' = r.conns
    /\ UNCHANGED <<connVars, dialing, plast>>

\* A command on a leased connection meets a transport failure.
TransportError ==
    /\ \E id \in Leased(conns) :
          /\ conns[id].by = "GetConnection"
          /\ ~conns[id].err
          /\ conns' = [conns EXCEPT ![id].err = TRUE]
    /\ UNCHANGED <<connVars, p, dialing, plast>>

\* pool.Do up to the deferred return; pool.Transaction, pool.Pipelined and
\* pool.PipelinedDiscarding lease and return the connection in the same way.
PoolDo == Lease("Do")

\* pool.Get, pool.Set and the other per-command methods, up to the deferred
\* return.
PoolGet == Lease("Get")

Outcomes == {"ok", "error", "broken", "panic"}

\* pool.Do's result as it would be if it returned what the commands inside
\* the callback returned.
poolDoReturnOfCommands(out) ==
    IF out = "broken" THEN ErrIO ELSE IF out = "error" THEN ErrWrongType ELSE NoErr

\* pool.Do after f(c): return nil.
poolDoReturn(out) == NoErr

\* The operation on the leased connection ends: with its result, with a
\* command error, with a transport failure on the connection, or with a panic
\* in the callback; the deferred Return then runs, and the call is over.
PoolOpEnd ==
    /\ \E id \in Leased(conns), out \in Outcomes :
          LET cs == IF out = "broken" THEN [conns EXCEPT ![id].err = TRUE] ELSE conns
              r == DeferredReturn(p, cs, id, out)
          IN  /\ conns[id].by \in PoolOps
              /\ out = "panic" => conns[id].by = "Do"
              /\ p' = r.p
              /\ conns' = [r.conns EXCEPT ![id].by = "none"]
              /\ plast' = Result(conns[id].by,
                                 IF conns[id].by = "Do" THEN poolDoReturn(out) ELSE NoErr,
                                 out, 0, 0)
    /\ UNCHANGED <<connVars, dialing>>

\* pool.Shutdown
Shutdown ==
    /\ ~p.closed
    /\ p' = [p EXCEPT !.idle = <<>>, !.closed = TRUE, !.active = @ - Len(p.idle)]
    /\ conns' = [id \in ConnIds |->
                    IF conns[id].state = "idle" THEN Closed
                    ELSE conns[id]]
    /\ plast' = Result("Shutdown", NoErr, "none", 0, 0)
    /\ UNCHANGED <<connVars, dialing>>

\* IdleTimeout passes for the connection that has been idle longest.
IdleTimeoutPasses ==
    /\ p.IdleTimeout > 0
    /\ \E i \in 1..Len(p.idle) :
          /\ ~conns[p.idle[i]].expired
          /\ \A k \in (i + 1)..Len(p.idle) : conns[p.idle[k]].expired
          /\ conns' = [conns EXCEPT ![p.idle[i]].expired = TRUE]
    /\ UNCHANGED <<connVars, p, dialing, plast>>

NoConns == [id \in ConnIds |-> Unopened]

----------------------------------------------------------------------------
\* hostsNotUsingAuth used by several goroutines.  Each goroutine is at one
\* place of the method it called: "lock" (it called, and asks for mu),
\* "locked" (it holds mu, the map access is next), "unlock" (the map access is
\* done, the deferred Unlock or RUnlock and the return are next).

ThreadIds == 1..NumThreads
NoThread == 0
IdleThread == [pc |-> "idle", op |-> "none", host |-> UrlHost, ret |-> FALSE]
Unlocked == [w |-> NoThread, r |-> {}]

\* sync.RWMutex: Lock waits until no goroutine holds mu for writing or
\* reading, RLock until none holds it for writing.
CanLockAnyway(m) == TRUE

CanLock(m) == m.w = NoThread /\ m.r = {}

CanRLock(m) == m.w = NoThread

\* A goroutine calls Add, Remove or Get with some host.
hostsCall ==
    \E t \in ThreadIds, op \in {"Add", "Remove", "Get"}, h \in Hosts :
        /\ threads[t].pc = "idle"
        /\ threads' = [threads EXCEPT ![t] = [pc |-> "lock", op |-> op, host |-> h,
                                             ret |-> FALSE]]
        /\ UNCHANGED <<soloVars, txVars, poolVars, hostsNotUsingAuth, settled, mu, url>>

\* m.mu.Lock() of Add and Remove.
hostsLock ==
    \E t \in ThreadIds :
        /\ threads[t].pc = "lock"
        /\ threads[t].op \in {"Add", "Remove"}
        /\ CanLock(mu)
        /\ mu' = [mu EXCEPT !.w = t]
        /\ threads' = [threads EXCEPT ![t].pc = "locked"]
        /\ UNCHANGED <<soloVars, txVars, poolVars, hostsNotUsingAuth, settled, url>>

\* m.mu.RLock() of Get.
hostsRLock ==
    \E t \in ThreadIds :
        /\ threads[t].pc = "lock"
        /\ threads[t].op = "Get"
        /\ CanRLock(mu)
        /\ mu' = [mu EXCEPT !.r = @ \cup {t}]
        /\ threads' = [threads EXCEPT ![t].pc = "locked"]
        /\ UNCHANGED <<soloVars, txVars, poolVars, hostsNotUsingAuth, settled, url>>

\* m.hosts[host] = true
hostsAdd ==
    \E t \in ThreadIds :
        /\ threads[t].pc = "locked"
        /\ threads[t].op = "Add"
        /\ hostsNotUsingAuth' = hostsNotUsingAuth \cup {threads[t].host}
        /\ threads' = [threads EXCEPT ![t].pc = "unlock"]
        /\ UNCHANGED <<soloVars, txVars, poolVars, settled, mu, url>>

\* delete(m.hosts, host)
hostsRemove ==
    \E t \in ThreadIds :
        /\ threads[t].pc = "locked"
        /\ threads[t].op = "Remove"
        /\ hostsNotUsingAuth' = hostsNotUsingAuth \ {threads[t].host}
        /\ threads' = [threads EXCEPT ![t].pc = "unlock"]
        /\ UNCHANGED <<soloVars, txVars, poolVars, settled, mu, url>>

\* return m.hosts[host]: the value is read, the deferred RUnlock is next.
hostsGet ==
    \E t \in ThreadIds :
        /\ threads[t].pc = "locked"
        /\ threads[t].op = "Get"
        /\ threads' = [threads EXCEPT ![t].pc = "unlock",
                                      ![t].ret = (threads[t].host \in hostsNotUsingAuth)]
        /\ UNCHANGED <<soloVars, txVars, poolVars, hostsNotUsingAuth, settled, mu, url>>

\* The deferred m.mu.Unlock(): Add or Remove is complete.
hostsUnlock ==
    \E t \in ThreadIds :
        /\ threads[t].pc = "unlock"
        /\ threads[t].op \in {"Add", "Remove"}
        /\ mu' = [mu EXCEPT !.w = NoThread]
        /\ settled' = IF threads[t].op = "Add" THEN settled \cup {threads[t].host}
                      ELSE settled \ {threads[t].host}
        /\ threads' = [threads EXCEPT ![t] = IdleThread]
        /\ UNCHANGED <<soloVars, txVars, poolVars, hostsNotUsingAuth, url>>

\* The deferred m.mu.RUnlock(): Get returns what it read.
hostsRUnlock ==
    \E t \in ThreadIds :
        /\ threads[t].pc = "unlock"
        /\ threads[t].op = "Get"
        /\ mu' = [mu EXCEPT !.r = @ \ {t}]
        /\ threads' = [threads EXCEPT ![t] = IdleThread]
        /\ UNCHANGED <<soloVars, txVars, poolVars, hostsNotUsingAuth, settled, url>>

----------------------------------------------------------------------------
\* The generator of a pool run by several goroutines.  The driver's pool
\* calls the generator outside its own lock, so that GetConnection calls that
\* each need a new connection run generateConnection(url) at the same time,
\* all with the one URL that NewPoolWithURL's closure holds.  A goroutine is at
\* "get" (hostsNotUsingAuth.Get is next), "strip" (url.User = nil is next),
\* "connect1" (the connect of the first branch: url.String() and
\* ConnectToURL), "remove", "connect2" (the connect of the second branch) or
\* "add".  Get, Add and Remove are taken as one step each.

\* The password of the connection that GetConnection returns, as it would be
\* if it were read from the URL at that time.
connectionPasswordFromURL(pw, u) == u.User

\* password: s.password
connectionPassword(pw, u) == pw

\* What GetConnection returns: the error, the password of the connection,
\* whether the generator's last attempt was that of the first branch, and the
\* password the URL had at that attempt.
Generated(err, cached) ==
    [op |-> "GetConnection", err |-> err,
     password |-> IF err = NoErr THEN connectionPassword(password, url) ELSE "",
     cached |-> cached, sent |-> url.User]

\* GetConnection is called, the driver's pool has no idle connection and
\* calls the generator.
GenGetConnection ==
    \E t \in ThreadIds :
        /\ threads[t].pc = "idle"
        /\ threads' = [threads EXCEPT ![t] = [pc |-> "get", op |-> "GetConnection",
                                             host |-> UrlHost, ret |-> FALSE]]
        /\ UNCHANGED <<soloVars, txVars, p, conns, dialing, plast, hostsNotUsingAuth, settled,
                       mu, url>>

\* if hostsNotUsingAuth.Get(url.Host)
GenGet ==
    \E t \in ThreadIds :
        /\ threads[t].pc = "get"
        /\ threads' = [threads EXCEPT ![t].pc = IF Cached THEN "strip" ELSE "connect2",
                                      ![t].ret = Cached]
        /\ UNCHANGED <<soloVars, txVars, p, conns, dialing, plast, hostsNotUsingAuth, settled,
                       mu, url>>

\* The first branch as it would be if it connected without the password and
\* left the URL as it is.
GenStripCopy ==
    \E t \in ThreadIds :
        /\ threads[t].pc = "strip"
        /\ threads' = [threads EXCEPT ![t].pc = "connect1"]
        /\ UNCHANGED <<soloVars, txVars, p, conns, dialing, plast, hostsNotUsingAuth, settled,
                       mu, url>>

\* url.User = nil
GenStrip ==
    \E t \in ThreadIds :
        /\ threads[t].pc = "strip"
        /\ url' = [url EXCEPT !.User = ""]
        /\ threads' = [threads EXCEPT ![t].pc = "connect1"]
        /\ UNCHANGED <<soloVars, txVars, p, conns, dialing, plast, hostsNotUsingAuth, settled,
                       mu>>

\* conn, err := redisurl.ConnectToURL(url.String()) of the first branch, and
\* the return unless err is redigoErrNoAuth.
GenConnectCached ==
    \E t \in ThreadIds :
        /\ threads[t].pc = "connect1"
        /\ LET r == ConnectToURL(srv.requirepass, url.User, url.db)
           IN  IF r.err = redigoErrNoAuth
               THEN /\ threads' = [threads EXCEPT ![t].pc = "remove"]
                    /\ plast' = plast
               ELSE /\ threads' = [threads EXCEPT ![t] = IdleThread]
                    /\ plast' = Generated(r.err, TRUE)
        /\ UNCHANGED <<soloVars, txVars, p, conns, dialing, hostsNotUsingAuth, settled, mu, url>>

\* hostsNotUsingAuth.Remove(url.Host); return generateConnection(url)
GenRemove ==
    \E t \in ThreadIds :
        /\ threads[t].pc = "remove"
        /\ hostsNotUsingAuth' = hostsNotUsingAuth \ {UrlHost}
        /\ settled' = hostsNotUsingAuth'
        /\ threads' = [threads EXCEPT ![t].pc = "get"]
        /\ UNCHANGED <<soloVars, txVars, p, conns, dialing, plast, mu, url>>

\* conn, err := redisurl.ConnectToURL(url.String()) of the second branch, and
\* the return unless err is redigoErrSentAuth.
GenConnect ==
    \E t \in ThreadIds :
        /\ threads[t].pc = "connect2"
        /\ LET r == ConnectToURL(srv.requirepass, url.User, url.db)
           IN  IF r.err = redigoErrSentAuth
               THEN /\ threads' = [threads EXCEPT ![t].pc = "add"]
                    /\ plast' = plast
               ELSE /\ threads' = [threads EXCEPT ![t] = IdleThread]
                    /\ plast' = Generated(r.err, FALSE)
        /\ UNCHANGED <<soloVars, txVars, p, conns, dialing, hostsNotUsingAuth, settled, mu, url>>

\* hostsNotUsingAuth.Add(url.Host); return generateConnection(url)
GenAdd ==
    \E t \in ThreadIds :
        /\ threads[t].pc = "add"
        /\ hostsNotUsingAuth' = hostsNotUsingAuth \cup {UrlHost}
        /\ settled' = hostsNotUsingAuth'
        /\ threads' = [threads EXCEPT ![t].pc = "get"]
        /\ UNCHANGED <<soloVars, txVars, p, conns, dialing, plast, mu, url>>

----------------------------------------------------------------------------
\* A transaction while another client uses the server.  Exec's s.c.Do("EXEC")
\* writes what Multi and f buffered and then EXEC; the commands reach the
\* server one at a time, and between any two of them the server may handle a
\* command of the other client.  The server's password does not change here,
\* so the retry of connection.Do is not taken.

\* What the other client sends.
OtherCmds == {CmdLPush, CmdDel}

Mine(q) == [i \in 1..Len(q) |-> [by |-> 1, cmd |-> q[i], at |-> 0]]
Others(q) == Cardinality({i \in 1..Len(q) : q[i].by = 2})

\* connection.Transaction after f returned: Exec writes the buffer and EXEC,
\* unless the connection has failed or the write fails.
TxExec ==
    /\ ex.mode = "tx"
    /\ \E fail \in BOOLEAN :
          IF c.err # NoErr \/ fail
          THEN /\ c' = [c EXCEPT !.err = IF c.err # NoErr THEN c.err ELSE ErrIO]
               /\ ex' = [ex EXCEPT !.mode = "none"]
               /\ last' = [op |-> "Transaction", val |-> <<>>, err |-> c'.err,
                           reply |-> RNil]
               /\ UNCHANGED <<wire, applied, obs>>
          ELSE /\ wire' = Append(c.out, CmdExec)
               /\ c' = [c EXCEPT !.out = <<>>]
               /\ ex' = [ex EXCEPT !.mode = "exec"]
               /\ UNCHANGED <<applied, obs>>
               /\ last' = [op |-> "Exec"]
    /\ UNCHANGED <<srv, password, poolVars, hostsNotUsingAuth, settled, threadVars>>

\* The next command of the transaction reaches the server; with the reply
\* to EXEC, Exec and Transaction return.
TxArrive ==
    /\ ex.mode = "exec"
    /\ wire # <<>>
    /\ LET r == ServerStep(srv, Head(wire))
       IN  /\ srv' = r.s
           /\ obs' = Append(obs, [cmd |-> Head(wire), reply |-> r.reply])
           /\ applied' = applied \o Mine(Applies(srv, Head(wire)))
           /\ wire' = Tail(wire)
           /\ IF Tail(wire) = <<>>
              THEN LET e == FirstErr(Append([i \in 1..Len(obs) |-> obs[i].reply], r.reply))
                       v == redigoValues(r.reply, e)
                   IN  /\ ex' = [ex EXCEPT !.mode = "none"]
                       /\ c' = [c EXCEPT !.pending = 0, !.inq = <<>>]
                       /\ last' = [op |-> "Transaction", val |-> v.val, err |-> v.err,
                                   reply |-> r.reply]
              ELSE UNCHANGED <<ex, c, last>>
    /\ UNCHANGED <<password, poolVars, hostsNotUsingAuth, settled, threadVars>>

\* The server handles a command of the other client while the commands of
\* the transaction are on their way; what the other client did earlier shows
\* in the data the transaction finds.
OtherClientDo ==
    /\ ex.mode = "exec"
    /\ Others(applied) < MaxOther
    /\ \E cmd \in OtherCmds :
          /\ cmd.op = "LPUSH" =>
                ListLen + Pushes(c.out) + Pushes(wire) + Pushes(srv.queue) < MaxList
          /\ srv' = [srv EXCEPT !.db = ServerExec(srv.db, cmd).db]
          /\ applied' = Append(applied, [by |-> 2, cmd |-> cmd, at |-> Len(wire)])
    /\ UNCHANGED <<c, password, ex, last, obs, wire, poolVars, hostsNotUsingAuth,
                   settled, threadVars>>

----------------------------------------------------------------------------
\* The conversions of convert.go and the typed hash methods of connection.
\* A Go slice is nil or a sequence and a Go map is nil or a function: the
\* nil slice and the empty slice differ.

NilSlice == [nil |-> TRUE, s |-> <<>>]
Slice(q) == [nil |-> FALSE, s |-> q]
NilMap == [nil |-> TRUE, m |-> EmptyMap]
Map(m) == [nil |-> FALSE, m |-> m]

Range(q) == {q[i] : i \in 1..Len(q)}

\* redigo.Strings as it would be if it left out the nil elements of the
\* reply.
RECURSIVE BulksOnly(_)
BulksOnly(a) ==
    IF a = <<>> THEN <<>>
    ELSE IF Head(a).t = "bulk" THEN <<Head(a).b>> \o BulksOnly(Tail(a))
    ELSE BulksOnly(Tail(a))

redigoStringsSkipNil(val, err) ==
    IF err # NoErr THEN [val |-> NilSlice, err |-> err]
    ELSE CASE val.t = "array" -> [val |-> Slice(BulksOnly(val.a)), err |-> NoErr]
           [] val.t = "nil" -> [val |-> NilSlice, err |-> ErrNil]
           [] val.t = "err" -> [val |-> NilSlice, err |-> val.e]
           [] OTHER -> [val |-> NilSlice, err |-> ErrUnexpected]

\* redigo.Strings: a nil element of the reply becomes the empty string.
redigoStrings(val, err) ==
    IF err # NoErr THEN [val |-> NilSlice, err |-> err]
    ELSE CASE val.t = "array" ->
                IF \A i \in 1..Len(val.a) : val.a[i].t \in {"bulk", "nil"}
                THEN [val |-> Slice([i \in 1..Len(val.a) |->
                                        IF val.a[i].t = "bulk" THEN val.a[i].b ELSE ""]),
                      err |-> NoErr]
                ELSE [val |-> NilSlice, err |-> ErrUnexpected]
           [] val.t = "nil" -> [val |-> NilSlice, err |-> ErrNil]
           [] val.t = "err" -> [val |-> NilSlice, err |-> val.e]
           [] OTHER -> [val |-> NilSlice, err |-> ErrUnexpected]

\* redigo.String as it would be if it reported every error as ErrNil.
redigoStringNilForError(val, err) ==
    IF err # NoErr THEN [val |-> "", err |-> ErrNil]
    ELSE redigoString(val, err)

\* redigo.String as the single-value reads use it.
redigoStringOf(val, err) == redigoString(val, err)

\* stringMap as it would be if it made a new error whatever it was given.
stringMapNewError(strings, err) ==
    IF strings.nil THEN [map |-> NilMap, err |-> ErrMapNil]
    ELSE IF Len(strings.s) % 2 # 0 THEN [map |-> NilMap, err |-> ErrMapOdd]
    ELSE [map |-> Map(ApplyPairs(EmptyMap, strings.s)), err |-> err]

\* stringMap
stringMap(strings, err) ==
    IF strings.nil
    THEN IF err = NoErr THEN [map |-> NilMap, err |-> ErrMapNil]
         ELSE [map |-> NilMap, err |-> err]
    ELSE IF Len(strings.s) % 2 # 0
    THEN IF err = NoErr THEN [map |-> NilMap, err |-> ErrMapOdd]
         ELSE [map |-> NilMap, err |-> err]
    ELSE [map |-> Map(ApplyPairs(EmptyMap, strings.s)), err |-> err]

\* The loop of spliceMap: result[keys[i]] = vals[i].
RECURSIVE SpliceLoop(_, _, _, _)
SpliceLoop(result, keys, vals, i) ==
    IF i > Len(keys) THEN result
    ELSE SpliceLoop(MapPut(result, keys[i], vals[i]), keys, vals, i + 1)

\* spliceMap
spliceMap(keys, vals, err) ==
    IF keys.nil \/ vals.nil
    THEN IF err = NoErr THEN [map |-> NilMap, err |-> ErrSpliceNil]
         ELSE [map |-> NilMap, err |-> err]
    ELSE IF Len(keys.s) # Len(vals.s)
    THEN IF err = NoErr THEN [map |-> NilMap, err |-> ErrSpliceLen]
         ELSE [map |-> NilMap, err |-> err]
    ELSE [map |-> Map(SpliceLoop(EmptyMap, keys.s, vals.s, 1)), err |-> err]

\* The fields the hash methods are called with ("yo" is never written) and
\* the maps HMSet is given.
HashFields == {"bar", "blah"}
HashValues == {"baz", "blech"}
HashMaps == UNION {[S -> HashValues] : S \in SUBSET HashFields}
HashFieldNames == HashFields \cup {"yo"}
HashFieldLists == UNION {[1..n -> HashFieldNames] : n \in 0..MaxFields}

\* The slices and errors stringMap and spliceMap are given.
Strs == {"bar", "baz"}
Slices == {NilSlice} \cup {Slice(q) : q \in UNION {[1..n -> Strs] : n \in 0..MaxSlice}}
Errs == {NoErr, ErrIO, ErrNil}

\* connection.HMSet with one of the maps, which the call's record keeps.
HashHMSet ==
    /\ Idle
    /\ \E m \in HashMaps :
          IF Cardinality(DOMAIN m) = 0
          THEN /\ last' = [op |-> "HMSet", m |-> m, err |-> ErrNoPairs]
               /\ obs' = <<>>
               /\ UNCHANGED <<c, srv>>
          ELSE \E kv \in mapToSlice(m) :
                  \E r \in connDo(Fresh, password, CmdHMSet(kv)) :
                     LET v == redigoString(r.val, r.err)
                     IN  /\ c' = r.w.c
                         /\ srv' = r.w.srv
                         /\ obs' = r.w.obs
                         /\ last' = [op |-> "HMSet", m |-> m,
                                     err |-> IF v.err # NoErr THEN v.err
                                             ELSE IF v.val # "OK" THEN ErrNotOK
                                             ELSE NoErr]
    /\ UNCHANGED <<password, ex, poolVars, hostsNotUsingAuth, settled, threadVars, txVars>>

\* connection.HMGet.  The record keeps the fields, what Do returned, the
\* data the server had, and the map of the HMSet that returned nil just
\* before, if there was one.
HashHMGet ==
    /\ Idle
    /\ \E f \in HashFieldLists :
          LET set == IF last.op = "HMSet" /\ last.err = NoErr THEN Map(last.m) ELSE NilMap
          IN  IF Len(f) = 0
              THEN /\ last' = [op |-> "HMGet", f |-> f, val |-> NilMap,
                               err |-> ErrNoFields, doerr |-> NoErr, set |-> set,
                               before |-> srv.db]
                   /\ obs' = <<>>
                   /\ UNCHANGED <<c, srv>>
              ELSE \E r \in connDo(Fresh, password, CmdHMGet(f)) :
                      \E v \in {spliceMap(Slice(f), redigoStrings(r.val, r.err).val,
                                          redigoStrings(r.val, r.err).err)} :
                          /\ c' = r.w.c
                          /\ srv' = r.w.srv
                          /\ obs' = r.w.obs
                          /\ last' = [op |-> "HMGet", f |-> f, val |-> v.map,
                                      err |-> v.err, doerr |-> r.err, set |-> set,
                                      before |-> srv.db]
    /\ UNCHANGED <<password, ex, poolVars, hostsNotUsingAuth, settled, threadVars, txVars>>

\* A single-value read: redigo.String(s.Do(...)).  The record keeps what Do
\* returned and the data the server had.
SingleRead(name, cmd) ==
    /\ Idle
    /\ \E r \in connDo(Fresh, password, cmd) :
          \E v \in {redigoStringOf(r.val, r.err)} :
              /\ c' = r.w.c
              /\ srv' = r.w.srv
              /\ obs' = r.w.obs
              /\ last' = [op |-> name, cmd |-> cmd, val |-> v.val, err |-> v.err,
                          reply |-> r.val, doerr |-> r.err, before |-> srv.db]
    /\ UNCHANGED <<password, ex, poolVars, hostsNotUsingAuth, settled, threadVars, txVars>>

\* connection.HGet
HashHGet == \E f \in HashFieldNames : SingleRead("HGet", CmdHGet(f))

\* connection.Get
HashGet == SingleRead("Get", CmdGet)

\* stringMap called with some slice and error.
StringMapCall ==
    /\ \E strings \in Slices, err \in Errs :
          last' = [op |-> "stringMap", strings |-> strings, in |-> err,
                   map |-> stringMap(strings, err).map, err |-> stringMap(strings, err).err]
    /\ UNCHANGED <<c, srv, password, ex, obs, poolVars, hostsNotUsingAuth, settled,
                   threadVars, txVars>>

\* spliceMap called with some slices and error.
SpliceMapCall ==
    /\ \E keys \in Slices, vals \in Slices, err \in Errs :
          last' = [op |-> "spliceMap", keys |-> keys, vals |-> vals, in |-> err,
                   map |-> spliceMap(keys, vals, err).map,
                   err |-> spliceMap(keys, vals, err).err]
    /\ UNCHANGED <<c, srv, password, ex, obs, poolVars, hostsNotUsingAuth, settled,
                   threadVars, txVars>>

----------------------------------------------------------------------------
\* Specifications.

\* One connection made by NewConnection, the first of the process; the pool
\* is not in use.
ConnInit ==
    /\ password \in Passwords
    /\ \E rp \in {"", "testpass"} :
          LET g == generateConnection(FALSE, rp, password, FALSE)
          IN  /\ ConnectOK(rp, password)
              /\ g.err = NoErr
              /\ hostsNotUsingAuth = IF g.hosts THEN {UrlHost} ELSE {}
              /\ srv = [db |-> DbNone, authed |-> g.authed,
                        requirepass |-> rp, multi |-> "off", queue |-> <<>>]
              /\ last = Connected(g, FALSE, rp, FALSE)
    /\ c = [out |-> <<>>, inq |-> <<>>, pending |-> 0, err |-> NoErr]
    /\ ex = NoExec
    /\ obs = <<>>

\* No goroutine uses hostsNotUsingAuth yet; the URL is as it was parsed.
ThreadInit ==
    /\ settled = hostsNotUsingAuth
    /\ mu = Unlocked
    /\ threads = [t \in ThreadIds |-> IdleThread]
    /\ url \in [User : {password}, db : BOOLEAN]
    /\ wire = <<>>
    /\ applied = <<>>

Init ==
    /\ ConnInit
    /\ ThreadInit
    /\ url.db = FALSE
    /\ p = NewPoolWithURL(DefaultConfig)
    /\ conns = NoConns
    /\ dialing = EmptyBag
    /\ plast = [op |-> "none"]

vars == <<c, srv, password, ex, last, obs, hostsNotUsingAuth, settled, mu, threads,
          url, wire, applied, p, conns, dialing, plast>>

Next ==
    \/ Do
    \/ HMSet
    \/ PipelinedBegin
    \/ PipelinedEnd
    \/ PipelinedDiscardingBegin
    \/ PipelinedDiscardingEnd
    \/ TransactionBegin
    \/ TransactionEnd
    \/ BatchLPush
    \/ BatchHMGet
    \/ BatchHMSet
    \/ ConfigSetRequirepass
    \/ Reconnect

Spec == Init /\ [][Next]_vars

\* A caller who pipelines sorted-set commands on one connection.
ZNext ==
    \/ PipelinedBegin
    \/ PipelinedEnd
    \/ BatchZAdd
    \/ BatchZRem
    \/ BatchZScore
    \/ BatchLPush

ZSpec == Init /\ [][ZNext]_vars

\* A pool made by NewPoolWithURL with some Config, used by the goroutines.
PoolInit ==
    /\ ConnInit
    /\ ThreadInit
    /\ url.db = FALSE
    /\ password = ""
    /\ srv.requirepass = ""
    /\ \E mo \in {Unlimited, 1, 2}, mi \in {0, 1, 2}, it \in {0, 1} :
          p = NewPoolWithURL([MaxOpenConnections |-> mo, MaxIdleConnections |-> mi,
                              IdleTimeout |-> it])
    /\ conns = NoConns
    /\ dialing = EmptyBag
    /\ plast = [op |-> "none"]

PoolNext ==
    \/ GetConnection
    \/ Dial
    \/ Return
    \/ ReturnNil
    \/ ReturnAgain
    \/ TransportError
    \/ PoolDo
    \/ PoolGet
    \/ PoolOpEnd
    \/ Shutdown
    \/ IdleTimeoutPasses

PoolSpec == PoolInit /\ [][PoolNext]_vars

\* hostsNotUsingAuth, empty as the package creates it, used by the goroutines.
CacheInit ==
    /\ ConnInit
    /\ ThreadInit
    /\ password = ""
    /\ srv.requirepass = ""
    /\ url.db = FALSE
    /\ p = NewPoolWithURL(DefaultConfig)
    /\ conns = NoConns
    /\ dialing = EmptyBag
    /\ plast = [op |-> "none"]

CacheNext ==
    \/ hostsCall
    \/ hostsLock
    \/ hostsRLock
    \/ hostsAdd
    \/ hostsRemove
    \/ hostsGet
    \/ hostsUnlock
    \/ hostsRUnlock

CacheSpec == CacheInit /\ [][CacheNext]_vars

\* A pool made by NewPoolWithURL from a URL with or without a password and
\* with or without a database, after the first connection of the process was
\* made to the same host; the goroutines call GetConnection, and the server's
\* password may be changed.
GenInit ==
    /\ ConnInit
    /\ ThreadInit
    /\ p = NewPoolWithURL(DefaultConfig)
    /\ conns = NoConns
    /\ dialing = EmptyBag
    /\ plast = [op |-> "none"]

GenNext ==
    \/ GenGetConnection
    \/ GenGet
    \/ GenStrip
    \/ GenConnectCached
    \/ GenRemove
    \/ GenConnect
    \/ GenAdd
    \/ ConfigSetRequirepass

GenSpec == GenInit /\ [][GenNext]_vars

\* One connection that runs transactions while another client writes the
\* same key.
TxNext ==
    \/ TransactionBegin
    \/ BatchLPush
    \/ BatchHMGet
    \/ BatchHMSet
    \/ TxExec
    \/ TxArrive
    \/ OtherClientDo

TxInit ==
    /\ Init
    /\ password = ""
    /\ srv.requirepass = ""

TxSpec == TxInit /\ [][TxNext]_vars

\* One connection used for the hash methods and the single-value reads,
\* while the key may also hold a list and the server's password may change.
HashNext ==
    \/ HashHMSet
    \/ HashHMGet
    \/ HashHGet
    \/ HashGet
    \/ Do
    \/ ConfigSetRequirepass

HashSpec == Init /\ [][HashNext]_vars

\* The conversions called on their own with every slice and error.
ConvNext ==
    \/ StringMapCall
    \/ SpliceMapCall

ConvSpec == TxInit /\ [][ConvNext]_vars

----------------------------------------------------------------------------
\* Properties of one connection, checked under Spec.

\* What the server received during the current call, and how often.
ObsCmds == [i \in 1..Len(obs) |-> obs[i].cmd]
Times(cmd) == Cardinality({i \in 1..Len(obs) : obs[i].cmd = cmd})
AuthTimes == Cardinality({i \in 1..Len(obs) : obs[i].cmd.op = "AUTH"})

\* The i-th reply Pipelined returned is the server's reply to the i-th command
\* of the call, and there is one for each.
InSendOrder ==
    /\ Len(last.val) = Len(ex.sent)
    /\ ObsCmds = ex.sent
    /\ \A i \in 1..Len(ex.sent) : last.val[i] = obs[i].reply

\* C1 as stated: whenever all N sends of a Pipelined call succeeded, the slice
\* it returns holds N replies, the i-th being the server's reply to the i-th
\* command.
PipelinedRepliesIfSent ==
    (last.op = "Pipelined" /\ ex.fails = 0) => InSendOrder

\* C1, amended: when all N sends of a Pipelined call succeeded, the connection
\* had no unread replies when the call began, and the call returns no error,
\* the slice holds N replies, the i-th being the server's reply to the i-th
\* command, each command having seen the effects of the earlier ones.
PipelinedReplies ==
    (last.op = "Pipelined" /\ ex.fails = 0 /\ ex.stale = 0 /\ last.err = NoErr)
        => InSendOrder

\* Two LPUSH in one Pipelined call on an empty key: the replies are 1, 2.
PipelinedRepliesWitness ==
    /\ last.op = "Pipelined"
    /\ ex.sent = <<CmdLPush, CmdLPush>>
    /\ ex.stale = 0
    /\ last.err = NoErr
    /\ last.val = <<RInt(1), RInt(2)>>

\* The server saw MULTI, the commands f issued in order, EXEC, and nothing else.
MultiCmdsExec == ObsCmds = <<CmdMulti>> \o ex.sent \o <<CmdExec>>

\* C2 as stated: for every Transaction call the server observes exactly MULTI,
\* f's commands in order, EXEC, and the slice returned is that EXEC's reply
\* array.
TransactionObservedAlways ==
    last.op = "Transaction" =>
        /\ MultiCmdsExec
        /\ obs[Len(obs)].reply = RArray(last.val)

\* C2, amended: for every Transaction call in which MULTI was sent, no
\* transport failure occurred and EXEC was not answered "authentication
\* required" on a connection with a password, the server observes exactly
\* MULTI, f's commands in order, EXEC; and when the call returns no error the
\* slice it returns is the reply array of that EXEC.
TransactionObserved ==
    (last.op = "Transaction" /\ last.invoked /\ last.err # ErrIO /\ last.auths = 0) =>
        /\ MultiCmdsExec
        /\ last.err = NoErr => obs[Len(obs)].reply = RArray(last.val)
        /\ last.err # NoErr => last.val = <<>>

\* A transaction of two LPUSH on an empty key returns EXEC's array 1, 2.
TransactionObservedWitness ==
    /\ last.op = "Transaction"
    /\ last.err = NoErr
    /\ ex.sent = <<CmdLPush, CmdLPush>>
    /\ last.val = <<RInt(1), RInt(2)>>

\* C3: a Do call whose first attempt is answered "authentication required" on
\* a connection with a password issues exactly one AUTH; if AUTH succeeds it
\* sends the command once more and returns that attempt's reply and error; if
\* AUTH fails it returns AUTH's error and does not send the command again.  No
\* Do call issues more than one AUTH or sends its command more than twice.
DoAuthRetry ==
    last.op = "Do" =>
        /\ last.auths <= 1 /\ last.tries <= 2
        /\ AuthTimes <= last.auths /\ Times(last.cmd) <= last.tries
        /\ (last.first = redigoErrNoAuth /\ password # "") =>
              /\ last.auths = 1
              /\ last.autherr = NoErr =>
                    /\ last.tries = 2
                    /\ last.err # ErrIO =>
                          /\ Times(last.cmd) = 2
                          /\ obs[Len(obs)].cmd = last.cmd
                          /\ last.val = obs[Len(obs)].reply
                          /\ last.err = IF last.val.t = "err" THEN last.val.e ELSE NoErr
              /\ last.autherr # NoErr =>
                    /\ last.tries = 1
                    /\ Times(last.cmd) = 1
                    /\ last.err = last.autherr
                    /\ last.val = RNil

\* A Do answered "authentication required" whose AUTH succeeded and whose
\* second attempt was served.
DoAuthRetryWitness ==
    /\ last.op = "Do"
    /\ last.first = redigoErrNoAuth
    /\ password # ""
    /\ last.tries = 2
    /\ last.err = NoErr
    /\ ObsCmds = <<last.cmd, CmdAuth(password), last.cmd>>

BatchOps == {"BatchLPush", "BatchHMGet", "BatchHMSet"}

\* C7: the counter of a batch executor is the number of Sends made through it
\* that succeeded since it was created or last drained with success: a
\* successful Send adds exactly one, a failed Send returns the Send's error
\* and leaves it unchanged, and a successful drain sets it to zero.
CounterCountsSends ==
    /\ InBatch => ex.counter = Len(ex.sent)
    /\ (last.op \in BatchOps /\ last.sendCalled) =>
          IF last.senderr = NoErr
          THEN ex.counter = last.before + 1 /\ last.err = NoErr
          ELSE ex.counter = last.before /\ last.err = last.senderr
    /\ last.op = "Pipelined" =>
          ex.counter = IF last.err = NoErr THEN 0 ELSE Len(ex.sent)

\* A Send through the executor failed after one had succeeded.
CounterCountsSendsWitness ==
    /\ last.op \in BatchOps
    /\ last.sendCalled
    /\ last.senderr # NoErr
    /\ last.before = 1
    /\ ex.counter = 1

\* C8: the batch HMGet with zero fields returns an error without calling Send
\* and without incrementing the counter, and the drain that follows reads as
\* many replies as commands were sent.
HMGetNoFields ==
    /\ (last.op = "BatchHMGet" /\ last.n = 0) =>
          /\ last.err # NoErr
          /\ ~last.sendCalled
          /\ ex.counter = last.before
          /\ ex.counter = Len(ex.sent)
    /\ (last.op = "Pipelined" /\ last.err = NoErr) => last.nrecv = Len(ex.sent)

\* HMGet with zero fields after one command was sent.
HMGetNoFieldsWitness ==
    /\ last.op = "BatchHMGet"
    /\ last.n = 0
    /\ last.before = 1

\* C9: when the counter is 0, the drain returns (nil, nil) without calling
\* Receive.
EmptyDrain ==
    (last.op = "Pipelined" /\ last.flusherr = NoErr /\ last.before = 0) =>
        /\ last.val = <<>>
        /\ last.err = NoErr
        /\ last.nrecv = 0

\* A Pipelined call whose f sent nothing, on a connection with an unread reply.
EmptyDrainWitness ==
    /\ last.op = "Pipelined"
    /\ last.flusherr = NoErr
    /\ last.before = 0
    /\ ex.stale > 0
    /\ Len(c.inq) = ex.stale

\* C10 as stated: HMSet with an empty map returns an error wherever it is
\* called, on a connection or on a batch executor, sends nothing, and leaves
\* the executor's counter unchanged.
HMSetEmptyRejected ==
    /\ (last.op = "HMSet" /\ last.n = 0) => (last.err # NoErr /\ obs = <<>>)
    /\ (last.op = "BatchHMSet" /\ last.n = 0) =>
          /\ last.err # NoErr
          /\ ~last.sendCalled
          /\ ex.counter = last.before

----------------------------------------------------------------------------
\* Properties of the pool, checked under PoolSpec.

\* C4: on a pool with MaxOpenConnections = M > 0 the number of connections
\* leased at one time never exceeds M, whatever the interleaving of
\* GetConnection, Return and the pool-level operations.
LeasedWithinMaxOpen ==
    p.MaxActive > 0 =>
        /\ Cardinality(Leased(conns)) <= p.MaxActive
        /\ Cardinality(Leased(conns)) + BagCardinality(dialing) <= p.MaxActive

\* Every connection the ceiling allows is leased, and a further call was
\* turned away.
LeasedWithinMaxOpenWitness ==
    /\ p.MaxActive > 0
    /\ Cardinality(Leased(conns)) = p.MaxActive
    /\ plast.op \in PoolOps \cup {"GetConnection"}
    /\ plast.err = ErrPoolExhausted

\* C5 as stated: on a pool with MaxOpenConnections = 1 a GetConnection made
\* while a connection is leased fails at once with ErrPoolExhausted, and one
\* made after the connection was returned succeeds.
ExhaustedThenAvailableAlways ==
    (p.MaxActive = 1 /\ plast.op = "GetConnection") =>
        /\ plast.held >= 1 => plast.err = ErrPoolExhausted
        /\ plast.held = 0 => plast.err = NoErr

\* C5, amended: on a pool with MaxOpenConnections = 1 that has not been shut
\* down, a GetConnection made while a connection is leased fails at once with
\* ErrPoolExhausted, without dialing; one made when no connection is leased or
\* being dialed succeeds unless it has to dial and the dial fails (on a pool
\* that has been shut down it fails with the driver's error).
ExhaustedThenAvailable ==
    (p.MaxActive = 1 /\ plast.op = "GetConnection") =>
        /\ \A d \in BagToSet(dialing) : d.op = "GetConnection" => d.held = 0
        /\ (plast.held >= 1 /\ plast.err # redigoErrPoolClosed)
              => plast.err = ErrPoolExhausted
        /\ (plast.busy = 0 /\ plast.err \notin {ErrDial, redigoErrPoolClosed})
              => plast.err = NoErr
        /\ plast.err = redigoErrPoolClosed => p.closed

\* With one connection leased a GetConnection was turned away.
ExhaustedThenAvailableWitness ==
    /\ p.MaxActive = 1
    /\ ~p.closed
    /\ plast.op = "GetConnection"
    /\ plast.held = 1
    /\ plast.err = ErrPoolExhausted
    /\ Cardinality(Leased(conns)) = 1

\* C6: every pool-level operation that obtained a lease returns the connection
\* when it ends, however it ends: the step that ends it takes its connection,
\* and no other, out of the leased set, so that no connection is ever leased
\* without a call that holds it.
PoolOpsReturn ==
    [][\A id \in ConnIds :
          (conns[id].state = "leased" /\ conns[id].by \in PoolOps
             /\ conns'[id].by \notin PoolOps) =>
                /\ conns'[id].state \in {"idle", "closed"}
                /\ Leased(conns') = Leased(conns) \ {id}
                /\ \A k \in Leased(conns') : conns'[k].by # "none"]_vars

\* A callback panicked and no connection is leased.
PoolOpsReturnWitness ==
    /\ plast.op = "Do"
    /\ plast.out = "panic"
    /\ Leased(conns) = {}
    /\ dialing = EmptyBag

----------------------------------------------------------------------------
\* C11: when a Receive fails during the drain of Pipelined, the drain stops
\* there: it returns no replies with the error, the failing Receive is the
\* first that fails (a transport failure, or the first error reply among the
\* replies read), and the replies after it stay unread.
DrainStopsOnError ==
    (last.op = "Pipelined" /\ last.flusherr = NoErr /\ last.err # NoErr) =>
        /\ last.val = <<>>
        /\ last.nrecv \in 1..last.before
        /\ IF last.err = ErrIO
           THEN /\ c.err = ErrIO
                /\ Len(c.inq) = ex.stale + Len(obs) - (last.nrecv - 1)
           ELSE /\ Len(c.inq) = ex.stale + Len(obs) - last.nrecv
                /\ ex.stale = 0 =>
                      /\ obs[last.nrecv].reply = RErr(last.err)
                      /\ \A j \in 1..(last.nrecv - 1) : obs[j].reply.t # "err"

\* The second Receive of a drain failed after the first returned a reply.
DrainStopsOnErrorWitness ==
    /\ last.op = "Pipelined"
    /\ last.flusherr = NoErr
    /\ last.err # NoErr
    /\ last.before = 2
    /\ last.nrecv = 2
    /\ last.val = <<>>

----------------------------------------------------------------------------
\* C12 as stated: PipelinedDiscarding flushes once and never calls Receive,
\* and it returns an error only when the write of its Flush fails: neither a
\* failed send inside fn nor an error reply of the server makes it return one.
DiscardingReportsFlushOnly ==
    last.op = "PipelinedDiscarding" =>
        /\ last.err # NoErr <=> last.flushfail
        /\ last.err = NoErr =>
              /\ ObsCmds = ex.sent
              /\ Len(c.inq) = ex.stale + Len(obs)

\* C12: PipelinedDiscarding flushes once and never calls Receive; it returns
\* what Flush returns, which is an error when the write of the Flush fails and
\* also when a send inside fn failed, as that broke the connection; an error
\* reply of the server is never returned.
DiscardingReportsFlush ==
    last.op = "PipelinedDiscarding" =>
        /\ last.err # NoErr <=> (last.flushfail \/ ex.fails = 1)
        /\ last.err \in {NoErr, ErrIO}
        /\ last.err = NoErr =>
              /\ ObsCmds = ex.sent
              /\ Len(c.inq) = ex.stale + Len(obs)
        /\ last.err # NoErr =>
              /\ obs = <<>>
              /\ Len(c.inq) = ex.stale

\* The server answered a discarded command with an error reply, which stays
\* unread, and the call returned no error.
DiscardingReportsFlushWitness ==
    /\ last.op = "PipelinedDiscarding"
    /\ last.err = NoErr
    /\ \E i \in 1..Len(obs) : obs[i].reply.t = "err"
    /\ \E i \in 1..Len(c.inq) : c.inq[i].t = "err"

----------------------------------------------------------------------------
\* C13: a Do call whose first attempt fails with an error other than
\* "authentication required", or with that error on a connection without a
\* password, sends no AUTH, sends the command once, and returns the reply and
\* the error of that attempt.
DoNoRetry ==
    (/\ last.op = "Do"
     /\ last.first # NoErr
     /\ (last.first # redigoErrNoAuth \/ password = "")) =>
        /\ last.auths = 0 /\ AuthTimes = 0
        /\ last.tries = 1 /\ Times(last.cmd) <= 1
        /\ last.err = last.first
        /\ IF Len(obs) = 0 THEN last.err = ErrIO /\ last.val = RNil
           ELSE /\ ObsCmds = <<last.cmd>>
                /\ last.val = IF last.err = ErrIO THEN RNil ELSE obs[1].reply

\* A connection without a password asked a server that requires one.
DoNoRetryWitness ==
    /\ last.op = "Do"
    /\ password = ""
    /\ last.first = redigoErrNoAuth
    /\ last.err = redigoErrNoAuth
    /\ last.val = RErr(redigoErrNoAuth)
    /\ ObsCmds = <<last.cmd>>

----------------------------------------------------------------------------
\* Properties of the pool, checked under PoolSpec.

IdleIds(cs) == {id \in ConnIds : cs[id].state = "idle"}
ClosedIds(cs) == {id \in ConnIds : cs[id].state = "closed"}

\* C14: the idle set never holds more than MaxIdleConnections connections: a
\* return to a full idle set closes one connection in the same step and leaves
\* the idle set full, and any other return closes at most the connection
\* returned.
IdleWithinMaxIdle ==
    [][/\ Len(p'.idle) <= p'.MaxIdle
       /\ Cardinality(IdleIds(conns')) <= p'.MaxIdle
       /\ \A id \in Leased(conns) :
             (conns'[id].state # "leased" /\ Len(p.idle) = p.MaxIdle) =>
                /\ Len(p'.idle) = p.MaxIdle
                /\ Cardinality(ClosedIds(conns')) = Cardinality(ClosedIds(conns)) + 1
                /\ Leased(conns') = Leased(conns) \ {id}]_vars

\* MaxOpenConnections=2, MaxIdleConnections=1: two connections were leased and
\* both returned, and the second return closed one; one is idle, one closed.
IdleWithinMaxIdleWitness ==
    /\ p.MaxActive = 2
    /\ p.MaxIdle = 1
    /\ plast.op = "Return"
    /\ plast.out = "evicts"
    /\ Cardinality(IdleIds(conns)) = 1
    /\ Cardinality(ClosedIds(conns)) = 1
    /\ Leased(conns) = {}
    /\ dialing = EmptyBag

\* The idle connections that have not outlived IdleTimeout.
Fresher(pp, cs) == {id \in IdleIds(cs) : ~cs[id].expired}

\* C15: a lease takes a connection from the idle set whenever the idle set
\* holds one that has not expired, and asks the generator for a new one only
\* when it holds none; a connection that a return keeps idle is at the front of
\* the idle set, and a lease from the idle set takes the one at the front, so
\* that a GetConnection called right after that return gets the connection
\* just returned.
IdleReused ==
    [][/\ BagCardinality(dialing') > BagCardinality(dialing) => Fresher(p, conns) = {}
       /\ (plast' # plast /\ plast'.op \in PoolOps \cup {"GetConnection"}
             /\ plast'.err # NoErr /\ plast'.err # ErrDial) => Fresher(p, conns) = {}
       /\ \A id \in ConnIds :
             /\ (conns[id].state = "leased" /\ conns'[id].state = "idle") =>
                   Head(p'.idle) = id
             /\ (conns[id].state = "idle" /\ conns'[id].state = "leased") =>
                   /\ Head(p.idle) = id
                   /\ dialing' = dialing
                   /\ Leased(conns') = Leased(conns) \cup {id}
       /\ (plast' # plast /\ plast'.op = "GetConnection" /\ plast'.err = NoErr
             /\ dialing' = dialing
             /\ plast.op = "Return" /\ plast.out \in {"kept", "evicts"}) =>
                /\ plast'.out = "idle"
                /\ Leased(conns') = Leased(conns) \cup {Head(p.idle)}]_vars

\* A connection was returned and kept, and the GetConnection that followed got
\* it from the idle set: no second connection was ever opened.
IdleReusedWitness ==
    /\ plast.op = "GetConnection"
    /\ plast.err = NoErr
    /\ plast.out = "idle"
    /\ Leased(conns) = {1}
    /\ UnopenedIds(conns) = ConnIds \ {1}
    /\ p.active = 1

\* C16: Shutdown closes every connection that is idle and leaves the leased
\* ones, and the calls waiting for the generator, as they are; once the pool
\* is shut down it stays so, its idle set stays empty, and a leased connection
\* that is returned is closed.
ShutdownClosesIdle ==
    [][/\ (~p.closed /\ p'.closed) =>
             /\ \A id \in ConnIds :
                   conns'[id] = IF conns[id].state = "idle" THEN Closed ELSE conns[id]
             /\ Leased(conns') = Leased(conns)
             /\ dialing' = dialing
       /\ p.closed =>
             /\ p'.closed
             /\ p'.idle = <<>>
             /\ IdleIds(conns') = {}
             /\ \A id \in Leased(conns) :
                   conns'[id].state # "leased" => conns'[id].state = "closed"]_vars

\* After Shutdown a connection that was leased before it was returned, and is
\* closed, while another is still leased.
ShutdownClosesIdleWitness ==
    /\ p.closed
    /\ p.MaxIdle > 0
    /\ plast.op = "Return"
    /\ plast.out = "closed"
    /\ Leased(conns) # {}
    /\ \A id \in Leased(conns) : ~conns[id].err
    /\ IdleIds(conns) = {}

\* The changes of state of one connection: opened by the generator for a
\* lease, leased from the idle set, returned and kept or closed, closed while
\* idle.
Moves ==
    {<<"none", "leased">>, <<"idle", "leased">>, <<"leased", "idle">>,
     <<"leased", "closed">>, <<"idle", "closed">>}

\* C17: every connection the pool opened is idle, leased or closed, the idle
\* ones are those of the idle list, once each, and every leased one is held by
\* one call.  A connection changes state only from idle to leased (the front
\* of the idle list, by a lease), from leased to idle or closed (by its
\* return), or from idle to closed (by Shutdown, by IdleTimeout, or as the
\* oldest idle one when a return fills the idle set): a closed connection stays
\* closed.
ConnStates ==
    [][/\ \A id \in ConnIds :
             /\ conns'[id].state \in {"none", "idle", "leased", "closed"}
             /\ conns'[id].state = "leased" <=> conns'[id].by # "none"
             /\ conns'[id].state = "idle" <=>
                   \E i \in 1..Len(p'.idle) : p'.idle[i] = id
             /\ conns'[id].state # conns[id].state =>
                   <<conns[id].state, conns'[id].state>> \in Moves
             /\ (conns[id].state = "leased" /\ conns'[id].state = "leased") =>
                   conns'[id].by = conns[id].by
             /\ (conns[id].state = "idle" /\ conns'[id].state = "leased") =>
                   Head(p.idle) = id
             /\ (conns[id].state = "idle" /\ conns'[id].state = "closed") =>
                   \/ ~p.closed /\ p'.closed
                   \/ conns[id].expired
                   \/ /\ p.idle[Len(p.idle)] = id
                      /\ Len(p.idle) = p.MaxIdle
                      /\ \E k \in Leased(conns) : conns'[k].state = "idle"
       /\ \A i, j \in 1..Len(p'.idle) : p'.idle[i] = p'.idle[j] => i = j]_vars

\* Two calls hold two connections, and a connection that was closed is still
\* closed.
ConnStatesWitness ==
    /\ Cardinality(Leased(conns)) = 2
    /\ ClosedIds(conns) # {}
    /\ plast.op = "GetConnection"
    /\ plast.err = NoErr
    /\ plast.out = "new"

\* C18: Return(nil) does not panic and changes nothing: the idle set, the
\* leased connections, the calls waiting for the generator and the state of
\* every connection are after the call what they were before it.
ReturnNilNoEffect ==
    [][(plast.op # "ReturnNil" /\ plast'.op = "ReturnNil") =>
          /\ plast'.out # "panic"
          /\ p' = p
          /\ conns' = conns
          /\ dialing' = dialing]_vars

\* Return(nil) was called on a pool with an idle and a leased connection.
ReturnNilNoEffectWitness ==
    /\ plast.op = "ReturnNil"
    /\ plast.out = "none"
    /\ Len(p.idle) = 1
    /\ Cardinality(Leased(conns)) = 1

\* C19: a leased connection that met a transport failure is closed when it is
\* returned, by Return or by the deferred return of a pool-level operation:
\* it does not enter the idle set, no idle connection has such a failure, and
\* as a closed connection stays closed no later lease hands it out.
BrokenNeverIdle ==
    [][/\ \A id \in Leased(conns) :
             (/\ conns'[id].state # "leased"
              /\ \/ conns[id].err
                 \/ conns[id].by \in PoolOps /\ plast'.out = "broken") =>
                /\ conns'[id] = Closed
                /\ \A i \in 1..Len(p'.idle) : p'.idle[i] # id
       /\ \A id \in IdleIds(conns') : ~conns'[id].err
       /\ \A id \in ClosedIds(conns) : conns'[id] = Closed]_vars

\* A pool that keeps idle connections and is not shut down closed the
\* connection that was returned: it had met a transport failure.
BrokenNeverIdleWitness ==
    /\ ~p.closed
    /\ p.MaxIdle > 0
    /\ plast.op = "Return"
    /\ plast.out = "closed"
    /\ p.idle = <<>>
    /\ ClosedIds(conns) # {}

----------------------------------------------------------------------------
\* Properties of hostsNotUsingAuth, checked under Spec.

\* C20: when the server answers "authentication required", to a Do on the
\* connection or while NewConnection connects, the host is not in
\* hostsNotUsingAuth afterwards; when it answers "client sent AUTH, but no
\* password is set" the host is in it afterwards.
CacheFollowsServer ==
    /\ (last.op = "Do" /\ last.first = redigoErrNoAuth) => ~Cached
    /\ (last.op = "NewConnection" /\ last.noauth) => ~Cached
    /\ (last.op = "NewConnection" /\ last.sentauth) => Cached

\* C21: when the server answers the AUTH of a connect attempt with "client
\* sent AUTH, but no password is set", generateConnection adds the host to
\* hostsNotUsingAuth and connects once more, without the password, and
\* NewConnection returns a connection and no error; a connect to a host that
\* is in hostsNotUsingAuth sends no password at its first attempt.
ConnectFallsBack ==
    last.op = "NewConnection" =>
        /\ last.sentauth =>
              /\ last.err = NoErr
              /\ Cached
              /\ last.tried = <<password, "">>
              /\ password # ""
              /\ c.err = NoErr
              /\ ~srv.authed
        /\ last.cached => last.tried[1] = ""

\* A URL with a password was used to connect to a server that has none: the
\* second attempt, without the password, gave the connection.
ConnectFallsBackWitness ==
    /\ last.op = "NewConnection"
    /\ last.sentauth
    /\ last.tried = <<"testpass", "">>
    /\ last.err = NoErr
    /\ c.err = NoErr
    /\ Cached

\* C22: when the host is in hostsNotUsingAuth, the URL has a password, and the
\* connect attempt without the password is answered "authentication
\* required", generateConnection removes the host and connects once more, this
\* time with the password of the URL.
RetryAuthenticates ==
    (last.op = "NewConnection" /\ last.cached /\ password # "" /\ last.noauth) =>
        /\ ~Cached
        /\ last.tried = <<"", password>>

\* With the host in (h) or out of hostsNotUsingAuth and a server whose
\* password is rp, no call of generateConnection needs a second attempt.
Settled(h, rp) ==
    \A pw \in Passwords, db \in BOOLEAN :
        Len(generateConnection(h, rp, pw, db).tried) = 1

\* C23: a call of generateConnection makes one connect attempt or two; one
\* that makes two leaves hostsNotUsingAuth such that, while the server's
\* password stays what it was, no later call for the host makes a second
\* attempt, and one that makes one attempt leaves hostsNotUsingAuth as it was:
\* of the calls made while the server's configuration stays the same at most
\* one retries.
ConnectConverges ==
    last.op = "NewConnection" =>
        /\ Len(last.tried) \in {1, 2}
        /\ Len(last.tried) = 2 => Settled(Cached, last.rp)
        /\ Len(last.tried) = 1 => Cached = last.cached
        /\ Settled(last.cached, last.rp) => Len(last.tried) = 1

\* A connect to a host in hostsNotUsingAuth was answered "authentication
\* required": the host was removed and a second attempt made.
ConnectConvergesWitness ==
    /\ last.op = "NewConnection"
    /\ last.cached
    /\ Len(last.tried) = 2
    /\ ~Cached

----------------------------------------------------------------------------
\* Properties of hostsNotUsingAuth used by several goroutines, checked under
\* CacheSpec.

\* C24: Add, Remove and Get are atomic however the goroutines interleave.  A
\* Get returns true exactly when the last Add or Remove of its host that
\* completed was an Add; while no goroutine holds mu for writing the map
\* holds exactly the hosts whose last completed write was an Add; a completed
\* Add leaves its host in the map and a completed Remove leaves it out; a
\* step of a call on one host leaves every other host as it was; and no call
\* fails or is stuck: while a call is in progress, some call can take a step.
CacheAtomic ==
    [][/\ mu.w = NoThread => hostsNotUsingAuth = settled
       /\ (\E t \in ThreadIds : threads[t].pc # "idle") =>
              \E t \in ThreadIds :
                  \/ threads[t].pc \in {"locked", "unlock"}
                  \/ threads[t].pc = "lock" /\ threads[t].op = "Get" /\ CanRLock(mu)
                  \/ threads[t].pc = "lock" /\ threads[t].op # "Get" /\ CanLock(mu)
       /\ \A t \in ThreadIds :
              /\ threads'[t] # threads[t] =>
                     \A h \in Hosts \ {threads'[t].host, threads[t].host} :
                         (h \in hostsNotUsingAuth') = (h \in hostsNotUsingAuth)
              /\ (threads[t].pc = "unlock" /\ threads'[t].pc = "idle") =>
                     /\ threads[t].op = "Get" =>
                            threads[t].ret = (threads[t].host \in settled)
                     /\ threads[t].op = "Add" =>
                            threads[t].host \in hostsNotUsingAuth' \cap settled'
                     /\ threads[t].op = "Remove" =>
                            threads[t].host \notin hostsNotUsingAuth' \cup settled'
      ]_vars

\* A Get of a host that is in the map has read true and is about to return,
\* while another goroutine called Remove of the same host and waits for mu,
\* and the other host is not in the map.
CacheAtomicWitness ==
    \E t, u \in ThreadIds :
        /\ threads[t].op = "Get" /\ threads[t].pc = "unlock" /\ threads[t].ret
        /\ threads[t].host = "otherhost"
        /\ threads[u].op = "Remove" /\ threads[u].pc = "lock"
        /\ threads[u].host = "otherhost"
        /\ hostsNotUsingAuth = {"otherhost"}
        /\ t \in mu.r

----------------------------------------------------------------------------
\* Properties of the generator run by several goroutines, checked under
\* GenSpec.

\* C25: beside hostsNotUsingAuth, which its lock protects, the goroutines
\* that create connections share no state that one writes while another
\* reads or writes it: no goroutine is about to write url.User while another
\* is about to write it or to read it for url.String(), neither under a lock.
OnlyCacheShared ==
    \A t, u \in ThreadIds :
        (t # u /\ threads[t].pc = "strip") =>
            threads[u].pc \notin {"strip", "connect1", "connect2"}

\* C26: every connection that GetConnection returns carries the password the
\* pool's URL had when the pool was made (the empty one when it had none),
\* whether or not the host is in hostsNotUsingAuth and whether or not the
\* connect that made the connection sent the password.
LeasedCarriesPassword ==
    (plast.op = "GetConnection" /\ plast.err = NoErr) => plast.password = password

\* GetConnection returned a connection with the password of the URL although
\* the host is in hostsNotUsingAuth and the connect was made without it.
LeasedCarriesPasswordWitness ==
    /\ plast.op = "GetConnection"
    /\ plast.err = NoErr
    /\ plast.password = "testpass"
    /\ plast.cached
    /\ plast.sent = ""
    /\ Cached

----------------------------------------------------------------------------
\* Properties of a transaction beside another client, checked under TxSpec.

\* C27: when EXEC arrives, the server applies the commands f sent one after
\* the other and in the order f sent them, on the data as the other client
\* left it before EXEC, and answers with their replies; in the order in which
\* commands take effect, no command of the other client lies between two
\* commands of the transaction; and a command of the transaction that
\* arrives before EXEC changes nothing.
TransactionContiguous ==
    [][/\ \A i, j, k \in 1..Len(applied) :
              (i < j /\ j < k /\ applied[i].by = 1 /\ applied[k].by = 1) =>
                  applied[j].by = 1
       /\ (ex.mode = "exec" /\ wire # <<>> /\ wire' = Tail(wire)) =>
              /\ srv'.db = ExecQueue(srv.db, Applies(srv, Head(wire))).db
              /\ Head(wire) # CmdExec => (srv'.db = srv.db /\ applied' = applied)
              /\ (Head(wire) = CmdExec /\ srv.multi = "on" /\ wire' = <<>>) =>
                     /\ applied' = applied \o Mine(ex.sent)
                     /\ srv'.db = ExecQueue(srv.db, ex.sent).db
                     /\ last'.reply = RArray(ExecQueue(srv.db, ex.sent).replies)
      ]_vars

\* A transaction of two commands returned their replies, and the other
\* client's command, which the server handled after the first of the two had
\* arrived, took effect before both.
TransactionContiguousWitness ==
    /\ last.op = "Transaction"
    /\ last.err = NoErr
    /\ Len(last.val) = 2
    /\ Len(applied) = 3
    /\ applied[1].by = 2 /\ applied[1].at = 2 /\ applied[1].cmd = CmdDel
    /\ applied[2] = [by |-> 1, cmd |-> CmdLPush, at |-> 0]
    /\ applied[3] = [by |-> 1, cmd |-> CmdLPush, at |-> 0]

----------------------------------------------------------------------------
\* Properties of the hash methods and the single-value reads, checked under
\* HashSpec.

\* An HMGet that met no transport failure and no refusal of the server, made
\* right after an HMSet that returned nil or on a key that does not exist.
HMGetCase ==
    /\ last.op = "HMGet"
    /\ last.doerr = NoErr
    /\ ~last.set.nil \/ last.before.kind = "none"

\* What the claim expects of it: a nil error and a map with one entry for
\* each distinct field asked for, holding the value HMSet wrote, or else the
\* value the hash had, or else the empty string.
ReadsBack ==
    /\ last.err = NoErr
    /\ ~last.val.nil
    /\ DOMAIN last.val.m = Range(last.f)
    /\ \A x \in Range(last.f) :
          last.val.m[x] =
              IF ~last.set.nil /\ x \in DOMAIN last.set.m THEN last.set.m[x]
              ELSE IF last.before.kind = "hash" /\ x \in DOMAIN last.before.h
                   THEN last.before.h[x]
              ELSE ""

\* C28 as stated: HMSet of a non-empty map followed by HMGet of any fields
\* returns a nil error and exactly one entry for each distinct field, the
\* written value or the empty string; so does HMGet of a key that does not
\* exist.
HMGetReadsBackAnyFields == HMGetCase => ReadsBack

\* C28, with at least one field: HMSet of a non-empty map followed by HMGet
\* of one or more fields returns a nil error and exactly one entry for each
\* distinct field, the written value for a field of the map and the empty
\* string for a field that is not in the hash; so does HMGet of a key that
\* does not exist, where every entry is the empty string.
HMGetReadsBack == (HMGetCase /\ Len(last.f) >= 1) => ReadsBack

\* HMSet wrote bar, and HMGet of bar and yo returned bar's value and the
\* empty string for yo.
HMGetReadsBackWitness ==
    /\ HMGetCase
    /\ last.f = <<"bar", "yo">>
    /\ ~last.set.nil
    /\ DOMAIN last.set.m = {"bar"}
    /\ last.err = NoErr
    /\ last.val.m["bar"] = "baz"
    /\ last.val.m["yo"] = ""

\* The key or, for HGet, the field that the last single-value read asked
\* for was not there.
Missing ==
    \/ last.before.kind = "none"
    \/ last.cmd.op = "HGET" /\ last.before.kind = "hash"
          /\ last.cmd.f[1] \notin DOMAIN last.before.h

\* C29: Get and HGet return the empty string and ErrNil when the server
\* answers nil, which it does exactly for a key or field that is not there;
\* and they return ErrNil in no other case: after a transport failure or an
\* error reply of the server they return that error, which is not ErrNil,
\* with the empty string.
NilReplyIsErrNil ==
    last.op \in {"HGet", "Get"} =>
        /\ (last.doerr = NoErr /\ last.reply.t = "nil") =>
               (last.val = "" /\ last.err = ErrNil)
        /\ last.err = ErrNil => (last.doerr = NoErr /\ last.reply.t = "nil" /\ Missing)
        /\ last.doerr = NoErr => (last.reply.t = "nil" <=> Missing)
        /\ last.doerr # NoErr =>
               (last.err = last.doerr /\ last.err # ErrNil /\ last.val = "")

\* HGet of a field that a hash does not have returned the empty string and
\* ErrNil.
NilReplyIsErrNilWitness ==
    /\ last.op = "HGet"
    /\ last.cmd = CmdHGet("yo")
    /\ last.before.kind = "hash"
    /\ last.val = ""
    /\ last.err = ErrNil

----------------------------------------------------------------------------
\* Properties of the conversions, checked under ConvSpec.

\* C30: stringMap given a nil slice or one of odd length, and spliceMap given
\* nil keys, nil values or slices of different lengths, return a nil map and
\* a non-nil error: the error they were given when that is not nil, a new
\* one of their own otherwise.
ConvertRejects ==
    /\ (last.op = "stringMap" /\ (last.strings.nil \/ Len(last.strings.s) % 2 = 1)) =>
           /\ last.map.nil
           /\ last.err # NoErr
           /\ last.in # NoErr => last.err = last.in
           /\ last.in = NoErr => last.err \in {ErrMapNil, ErrMapOdd}
    /\ (last.op = "spliceMap"
           /\ (last.keys.nil \/ last.vals.nil \/ Len(last.keys.s) # Len(last.vals.s))) =>
           /\ last.map.nil
           /\ last.err # NoErr
           /\ last.in # NoErr => last.err = last.in
           /\ last.in = NoErr => last.err \in {ErrSpliceNil, ErrSpliceLen}

\* stringMap was given a slice of three strings and the error of a failed
\* transport, and returned a nil map and that error.
ConvertRejectsWitness ==
    /\ last.op = "stringMap"
    /\ ~last.strings.nil
    /\ Len(last.strings.s) = 3
    /\ last.in = ErrIO
    /\ last.map.nil
    /\ last.err = ErrIO

----------------------------------------------------------------------------
\* More properties of the pool, checked under PoolSpec.

\* The step in which a GetConnection fails without a dial, and the step in
\* which the dial of a GetConnection fails.
LeaseFailStep ==
    /\ dialing' = dialing
    /\ plast' # plast
    /\ plast'.op = "GetConnection"
    /\ plast'.err # NoErr

DialFailStep ==
    /\ BagCardinality(dialing') < BagCardinality(dialing)
    /\ p'.active < p.active
    /\ plast'.op = "GetConnection"

\* C31 as stated: GetConnection returns ErrPoolExhausted only at the ceiling
\* of open connections, a failed connect is returned as its own error, and
\* every failing call returns no connection and leaves the leased
\* connections and the idle connections as they were before the call.
LeaseFailureLeavesPool ==
    [][(LeaseFailStep \/ DialFailStep) =>
          /\ plast'.err = ErrPoolExhausted =>
                 (p.MaxActive > 0 /\ plast'.busy >= p.MaxActive)
          /\ DialFailStep => plast'.err = ErrDial
          /\ Leased(conns') = Leased(conns)
          /\ p'.idle = p.idle
          /\ plast'.out = "none"
      ]_vars

\* C31, amended: GetConnection returns ErrPoolExhausted only at the ceiling
\* of open connections, a failed connect is returned as its own error, the
\* only other error is that of a pool that was shut down, and every failing
\* call returns no connection, leaves the leased connections as they were,
\* and leaves the idle connections as they were except that the call closed
\* those that had outlived IdleTimeout before it dialed.
LeaseFailureLeavesLeased ==
    [][(LeaseFailStep \/ DialFailStep) =>
          /\ plast'.err \in {ErrPoolExhausted, ErrDial, redigoErrPoolClosed}
          /\ plast'.err = ErrPoolExhausted =>
                 (p.MaxActive > 0 /\ plast'.busy >= p.MaxActive /\ plast'.out = "none")
          /\ plast'.err = redigoErrPoolClosed => (p.closed /\ plast'.out = "none")
          /\ DialFailStep => plast'.err = ErrDial
          /\ Leased(conns') = Leased(conns)
          /\ \A id \in ConnIds : conns'[id].by = conns[id].by
          /\ p'.idle = p.idle
          /\ plast'.out \in {"none", "pruned"}
          /\ plast'.out = "pruned" => (p.IdleTimeout > 0 /\ DialFailStep)
      ]_vars

\* A GetConnection on a pool with a ceiling failed because its connect
\* failed, below the ceiling, after it had closed an idle connection that had
\* outlived IdleTimeout.
LeaseFailureLeavesLeasedWitness ==
    /\ plast.op = "GetConnection"
    /\ plast.err = ErrDial
    /\ plast.out = "pruned"
    /\ p.MaxActive > 0
    /\ plast.busy < p.MaxActive

----------------------------------------------------------------------------
\* More properties of one connection, checked under Spec.

\* C32: in a Transaction on a connection with a password whose EXEC is
\* answered "authentication required", the retry sends EXEC alone after
\* AUTH: the server receives MULTI once and each command of f once, all
\* before AUTH, and after AUTH nothing but the one EXEC, which it answers
\* "EXEC without MULTI" when AUTH succeeded.
TransactionRetriesExecOnly ==
    (last.op = "Transaction" /\ last.invoked /\ last.auths = 1) =>
        /\ password # ""
        /\ Times(CmdMulti) <= 1
        /\ \A i, j \in 1..Len(obs) :
              (obs[i].cmd.op = "AUTH" /\ i < j) => (obs[j].cmd = CmdExec /\ j = i + 1)
        /\ (last.tries = 2 /\ last.err # ErrIO) =>
              /\ ObsCmds = <<CmdMulti>> \o ex.sent \o <<CmdExec, CmdAuth(password), CmdExec>>
              /\ last.err = ErrNoMulti
              /\ last.val = <<>>
        /\ last.tries = 1 =>
              (Len(obs) > 0 => obs[Len(obs)].cmd.op \in {"AUTH", "EXEC"})

\* MULTI, an LPUSH and EXEC were refused for lack of authentication; after
\* AUTH only EXEC was sent again, and the transaction returned the server's
\* "EXEC without MULTI".
TransactionRetriesExecOnlyWitness ==
    /\ last.op = "Transaction"
    /\ last.auths = 1
    /\ last.tries = 2
    /\ ex.sent = <<CmdLPush>>
    /\ ObsCmds = <<CmdMulti, CmdLPush, CmdExec, CmdAuth(password), CmdExec>>
    /\ last.err = ErrNoMulti

\* C33 as stated: when sending MULTI fails, Transaction returns no replies
\* and that error, f is not invoked and EXEC is not sent; when MULTI is sent,
\* f is invoked once and EXEC is handed to the driver exactly once, even when
\* sends inside f failed, and an error that a batch method returned without
\* sending is not Transaction's error.
TransactionSendsExecOnce ==
    last.op = "Transaction" =>
        /\ ~last.invoked =>
              (last.err = ErrIO /\ last.val = <<>> /\ obs = <<>> /\ ex = NoExec)
        /\ last.invoked =>
              /\ last.tries = 1
              /\ last.err \notin {ErrNoFields, ErrNoPairs}

\* C33, amended: when sending MULTI fails, Transaction returns no replies and
\* that error, f is not invoked and nothing is sent; when MULTI is sent, f is
\* invoked once and Exec is called once, even when sends inside f failed.
\* EXEC is handed to the driver once, and a second time only by the auth
\* retry; it reaches the server as often unless the transport fails, and
\* after a failed send inside f it does not reach the server and Transaction
\* returns the transport's error.  An error that a batch method returned
\* without sending is never Transaction's error.
TransactionCallsExecOnce ==
    last.op = "Transaction" =>
        /\ ~last.invoked =>
              /\ last.err = ErrIO /\ last.val = <<>> /\ obs = <<>> /\ ex = NoExec
              /\ last.tries = 0
        /\ last.invoked =>
              /\ last.tries \in {1, 2}
              /\ last.tries = 2 => (last.auths = 1 /\ password # "")
              /\ Times(CmdExec) <= last.tries
              /\ last.err # ErrIO => Times(CmdExec) = last.tries
              /\ ex.fails > 0 =>
                    (last.err = ErrIO /\ last.tries = 1 /\ obs = <<>> /\ last.val = <<>>)
              /\ last.err \notin {ErrNoFields, ErrNoPairs}

\* Transaction was called, the one send inside f failed, Exec was called
\* once all the same, and Transaction returned the transport's error.
TransactionCallsExecOnceWitness ==
    /\ last.op = "Transaction"
    /\ last.invoked
    /\ ex.fails > 0
    /\ ex.sent = <<>>
    /\ last.tries = 1
    /\ last.err = ErrIO
ZOps == {"BatchZAdd", "BatchZRem", "BatchZScore"}

\* C34: the batch ZAdd without score/member arguments, ZRem without members
\* and ZScore with an empty member return nil without calling Send and
\* without incrementing the counter, so a Pipelined that succeeds returns one
\* reply per command sent, which is at most, and can be less than, the number
\* of batch calls that returned nil.
EmptyZCallsSendNothing ==
    /\ (last.op \in ZOps /\ last.n = 0) =>
          /\ last.err = NoErr
          /\ ~last.sendCalled
          /\ ex.counter = last.before
          /\ ex.counter < ex.oks
    /\ (last.op \in ZOps /\ last.n > 0) => last.sendCalled
    /\ InBatch => (ex.counter = Len(ex.sent) /\ ex.counter <= ex.oks)
    /\ (last.op = "Pipelined" /\ last.err = NoErr) =>
          /\ Len(last.val) = Len(ex.sent)
          /\ last.nrecv = Len(ex.sent)
          /\ Len(last.val) <= ex.oks

\* A Pipelined returned one reply after two batch calls had returned nil.
EmptyZCallsSendNothingWitness ==
    /\ last.op = "Pipelined"
    /\ last.err = NoErr
    /\ Len(last.val) = 1
    /\ ex.sent # <<>>
    /\ ex.sent[1].op \in {"ZADD", "ZREM", "ZSCORE"}
    /\ ex.oks = 2

\* C35: when the k-th Receive of a drain of N pending replies fails, by a
\* transport failure or by a server error reply, the drain returns no replies,
\* leaves the counter at N and leaves the N-k replies after the failing one
\* unread: an error reply is consumed, so exactly the replies that were
\* unread before the call plus N-k remain.
FailedDrainKeepsCounter ==
    (last.op = "Pipelined" /\ last.flusherr = NoErr /\ last.err # NoErr) =>
        /\ last.before > 0
        /\ last.nrecv \in 1..last.before
        /\ last.val = <<>>
        /\ ex.counter = last.before
        /\ Len(c.inq) >= last.before - last.nrecv
        /\ last.err # ErrIO => Len(c.inq) = ex.stale + last.before - last.nrecv
        /\ last.err = ErrIO => c.err = ErrIO

\* The first Receive of a drain of two replies returned a server error reply.
FailedDrainKeepsCounterWitness ==
    /\ last.op = "Pipelined"
    /\ last.flusherr = NoErr
    /\ last.err \notin {NoErr, ErrIO}
    /\ last.before = 2
    /\ last.nrecv = 1
    /\ ex.counter = 2
    /\ Len(c.inq) = 1

Replies(o) == [i \in 1..Len(o) |-> o[i].reply]
DiscardingReturns == ex.mode = "disc" /\ ex'.mode = "none"
PipelinedReturns == ex.mode = "pipe" /\ ex'.mode = "none"

\* C36 as stated: after a PipelinedDiscarding in which N sends succeeded, the
\* N replies are unread on the connection, after the replies that were unread
\* before, and the next Receive returns the first of them.
DiscardedRepliesUnread ==
    [][(DiscardingReturns /\ ex.fails = 0) =>
          /\ Len(obs') = ex.counter
          /\ c'.inq = c.inq \o Replies(obs')
          /\ c'.err = NoErr]_vars

\* C36: after a PipelinedDiscarding that returned nil and in which N sends
\* succeeded, the N replies are unread on the connection, after those that
\* were unread before: with none before, the next Receive returns the reply
\* to the first discarded command.  A Pipelined that follows and succeeds
\* returns the unread replies first and its own after them, as many as it
\* sent commands, and leaves the rest unread.
DiscardedRepliesStayUnread ==
    [][/\ (DiscardingReturns /\ last'.err = NoErr) =>
             /\ ex.fails = 0
             /\ Len(obs') = ex.counter
             /\ [i \in 1..Len(obs') |-> obs'[i].cmd] = ex.sent
             /\ c'.inq = c.inq \o Replies(obs')
             /\ c'.err = NoErr
             /\ (c.inq = <<>> /\ ex.counter > 0) =>
                   DriverReceive([c |-> c', srv |-> srv', obs |-> obs'], FALSE).val
                      = IF obs'[1].reply.t = "err" THEN RNil ELSE obs'[1].reply
       /\ (DiscardingReturns /\ last'.err # NoErr) =>
             (obs' = <<>> /\ c'.inq = c.inq /\ c'.err = ErrIO)
       /\ (PipelinedReturns /\ last'.err = NoErr) =>
             /\ last'.val = SubSeq(c.inq \o Replies(obs'), 1, ex.counter)
             /\ c'.inq = SubSeq(c.inq \o Replies(obs'), ex.counter + 1,
                                Len(c.inq) + Len(obs'))]_vars

\* A Pipelined that sent one LPUSH returned the OK of a discarded HMSET, and
\* the reply to the LPUSH is left unread.
DiscardedRepliesStayUnreadWitness ==
    /\ last.op = "Pipelined"
    /\ last.err = NoErr
    /\ ex.stale = 1
    /\ ex.sent = <<CmdLPush>>
    /\ last.val = <<RStatus("OK")>>
    /\ Len(c.inq) = 1

\* A goroutine makes a connect attempt in this step.
Connects(t) == threads[t].pc \in {"connect1", "connect2"} /\ threads'[t] # threads[t]

\* C37: once generateConnection has run its first branch for the URL, the
\* URL's user info is cleared and stays cleared: every connect attempt made
\* with the URL from then on, in either branch, in the same call or a later
\* one, whether or not the host is still in the cache, sends no password.
UserInfoClearedForGood ==
    [][/\ url.User \in {"", password}
       /\ url.User = "" => url'.User = ""
       /\ \A t \in ThreadIds :
             /\ (threads[t].pc = "strip" /\ threads'[t].pc = "connect1") =>
                   url'.User = ""
             /\ (threads[t].pc = "connect1" /\ Connects(t)) => url.User = ""
             /\ (Connects(t) /\ threads'[t] = IdleThread) =>
                   (plast'.sent = url.User /\ plast'.cached = (threads[t].pc = "connect1"))
             /\ (threads[t].pc = "remove" /\ threads'[t].pc = "get") =>
                   (url'.User = "" /\ UrlHost \notin hostsNotUsingAuth')]_vars

\* A pool made with a password connected without it in the second branch,
\* with the host no longer in the cache.
UserInfoClearedForGoodWitness ==
    /\ plast.op = "GetConnection"
    /\ ~plast.cached
    /\ plast.sent = ""
    /\ plast.err = redigoErrNoAuth
    /\ password # ""
    /\ url.User = ""
    /\ UrlHost \notin hostsNotUsingAuth

\* The connections that are in the hands of a callback of Pool.Do.
DoHeld(cs) == {id \in ConnIds : cs[id].state = "leased" /\ cs[id].by = "Do"}

\* C38: Pool.Do returns an error only when leasing a connection fails, and
\* then no connection is handed to f, which is not invoked; when the lease
\* succeeds one connection is handed to f, once, and when f has returned,
\* whether its commands succeeded, got error replies or broke the
\* connection, the connection goes back and Pool.Do returns nil.
PoolDoReturnsLeaseError ==
    [][/\ (plast' # plast /\ plast'.op = "Do" /\ plast'.err # NoErr) =>
             /\ DoHeld(conns') = DoHeld(conns)
             /\ plast'.out = "none"
             /\ plast'.err \in {ErrPoolExhausted, ErrDial, redigoErrPoolClosed}
       /\ DoHeld(conns') # DoHeld(conns) =>
             \/ /\ \E id \in ConnIds \ DoHeld(conns) :
                       DoHeld(conns') = DoHeld(conns) \cup {id}
                /\ plast' = plast
             \/ /\ \E id \in DoHeld(conns) :
                       /\ DoHeld(conns') = DoHeld(conns) \ {id}
                       /\ conns'[id].state # "leased"
                /\ plast'.op = "Do"
                /\ plast'.out \in Outcomes
                /\ plast'.out # "panic" => plast'.err = NoErr]_vars

\* Pool.Do returned nil after a command inside f broke the connection.
PoolDoReturnsLeaseErrorWitness ==
    /\ plast.op = "Do"
    /\ plast.err = NoErr
    /\ plast.out = "broken"
    /\ \E id \in ConnIds : conns[id].state = "closed"

====
